---- MODULE Spec2Model ----
(***************************************************************************)
(* Gravity process management: the ProcessManagerRouter (name             *)
(* classification, routed dispatch, exec), the ProcessExecutor and the    *)
(* systemd backend (unit naming, update/reconciliation, control-utility   *)
(* calls), as a state machine.                                             *)
(*                                                                         *)
(* Strings built by f-strings are kept as sequences of their parts        *)
(* (<<"galaxy", "-", "main", ".target">> is "galaxy-main.target"), so     *)
(* that startswith/endswith/glob tests are tests on the first and last    *)
(* parts.  Dictionaries are functions whose DOMAIN is the key set.        *)
(***************************************************************************)
EXTENDS Integers, Sequences, FiniteSets, TLC

VARIABLES
    registry,          \* ConfigManager: the registered configs, in registry order
    process_managers,  \* ProcessManagerRouter.process_managers: backend names in dict order
    use_instance_name, \* backend attribute _use_instance_name (read at systemd.py 155, 219,
                       \* 234, 364; set by code outside these files)
    user_mode,         \* SystemdProcessManager.user_mode
    os_environ,        \* os.environ of the running process
    files,             \* the systemd unit directory: file name -> contents
    unit_dir_exists,   \* os.path.exists(__systemd_unit_dir)
    service_changes,   \* SystemdProcessManager._service_changes ("unset" until assigned)
    pc,                \* "idle" | "returned" | "replaced" (after os.execvpe)
    op,                \* the operation that ran last, with its arguments
    calls,             \* backend methods the router invoked in that operation
    log,               \* external effects of that operation, in order
    err,               \* exception that ended it ("none" if it returned)
    message,           \* the message of a gravity.io.exception
    warnings,          \* gravity.io.warn messages of that operation
    classified,        \* (instance_names, service_names) of _instance_service_names in it
    files_before       \* the unit directory when that operation started

vars == <<registry, process_managers, use_instance_name, user_mode, os_environ, files,
          unit_dir_exists, service_changes, pc, op, calls, log, err, message, warnings,
          classified, files_before>>

(***************************************************************************)
(* Bounds of the model                                                     *)
(***************************************************************************)
MaxTokens == 2      \* longest list of name tokens given to an operation
MaxCount == 3       \* largest service.count of a replicated service
MaxFailAt == 2      \* the external call (1st, 2nd, ...) that may exit non-zero
MaxResolve == 2     \* how often in a row one (config, service) is resolved

(***************************************************************************)
(* General helpers                                                         *)
(***************************************************************************)
Range(s) == {s[i] : i \in 1..Len(s)}

EmptyDict == [k \in {} |-> <<>>]

\* dict(a) updated with b / {**a, **b} / a | b : keys of b win
DictUnion(a, b) == [k \in (DOMAIN a) \cup (DOMAIN b) |-> IF k \in DOMAIN b THEN b[k] ELSE a[k]]

DictPut(d, k, v) == [x \in (DOMAIN d) \cup {k} |-> IF x = k THEN v ELSE d[x]]

DictDel(d, k) == [x \in (DOMAIN d) \ {k} |-> d[x]]

RECURSIVE Flatten(_)
Flatten(ss) == IF ss = <<>> THEN <<>> ELSE Head(ss) \o Flatten(Tail(ss))

RECURSIVE Perms(_)
\* the orders in which a Python set / os.listdir / glob may hand out its elements
Perms(S) == IF S = {} THEN {<<>>} ELSE UNION {{<<x>> \o p : p \in Perms(S \ {x})} : x \in S}

SeqsUpTo(S, n) == UNION {[1..k -> S] : k \in 0..n}

(***************************************************************************)
(* Service / Config model (gravity.state, gravity.config_manager)          *)
(***************************************************************************)
PMNames == {"supervisor", "systemd"}

GracefulMethods == {"DEFAULT", "SIGHUP", "ROLLING"}

\* gravity.state.VALID_SERVICE_NAMES: the reserved service names
VALID_SERVICE_NAMES == {"gunicorn", "celery", "reports"}

Service(name, type, ct, count, gm, env) ==
    [service_name |-> name, service_type |-> type, config_type |-> ct, count |-> count,
     graceful_method |-> gm, environment |-> env, environment_from |-> "",
     add_virtualenv_to_path |-> TRUE,
     command_template |-> <<"{virtualenv_bin}", type, " ", "{galaxy_conf}">>]

Gunicorn == Service("gunicorn", "gunicorn", "galaxy", 1, "SIGHUP",
                    ("GALAXY_CONFIG_FILE" :> <<"{galaxy_conf}">>))

Celery == Service("celery", "celery", "galaxy", MaxCount, "ROLLING", EmptyDict)

Reports == Service("reports", "reports", "reports", 1, "DEFAULT",
                   ("PATH" :> <<"/opt/reports/bin">>))

\* a replicated service that is not restarted replica by replica
Workflow == Service("workflow", "standalone", "galaxy", MaxCount, "DEFAULT", EmptyDict)

Config(inst, ct, pm, services, venv) ==
    [instance_name |-> inst, config_type |-> ct, process_manager |-> pm,
     services |-> services, virtualenv |-> venv,
     service_command_style |-> "gravity",
     galaxy_root |-> <<"/srv/", inst>>, file |-> <<"/etc/", inst, ".yml">>,
     attribs_environment |-> ("gunicorn" :> ("TMPDIR" :> <<"/srv/", inst, "/tmp">>))]

MainConfigs ==
    {Config("main", "galaxy", pm, ss, venv) :
        pm \in PMNames, ss \in {<<>>, <<Gunicorn, Celery>>}, venv \in {<<>>, <<"/venv">>}}

\* an instance whose name is also a service name
ReportsConfigs ==
    {Config("reports", "reports", pm, ss, <<"/venv">>) : pm \in PMNames, ss \in {<<>>, <<Reports>>}}

Registries ==
    {<<m>> : m \in MainConfigs}
    \cup {<<m, r>> : m \in MainConfigs, r \in ReportsConfigs}
    \cup {<<r, m>> : m \in MainConfigs, r \in ReportsConfigs}

\* ConfigManager.get_registered_instance_names
get_registered_instance_names(reg) == {reg[i].instance_name : i \in 1..Len(reg)}

\* ConfigManager.get_configured_service_names
get_configured_service_names(reg) ==
    UNION {{reg[i].services[j].service_name : j \in 1..Len(reg[i].services)} : i \in 1..Len(reg)}

\* ConfigManager.get_registered_configs(instances=...): instances = <<>> stands for None
get_registered_configs(reg, instances) ==
    IF instances = <<>> THEN reg
    ELSE SelectSeq(reg, LAMBDA c : c.instance_name \in Range(instances))

\* ConfigManager.get_configs(process_manager=...)
get_configs(reg, pm) == SelectSeq(reg, LAMBDA c : c.process_manager = pm)

\* ConfigManager.single_instance
single_instance(reg) == Len(reg) = 1

(***************************************************************************)
(* The state one operation threads through the calls it makes              *)
(***************************************************************************)
\* err: "none", "exception" (gravity.io.exception), "TypeError", "AttributeError",
\*      "KeyError", "CalledProcessError"
NoFail == [at |-> 0, rc |-> 0]

NoNames == [instance_names |-> <<>>, service_names |-> <<>>]

FailCodes == {1, 3, 4}

Fails == {NoFail} \cup {[at |-> k, rc |-> c] : k \in 1..MaxFailAt, c \in FailCodes}

Start(fs, exists, changes, fail, order) ==
    [files |-> fs, unit_dir_exists |-> exists, service_changes |-> changes,
     log |-> <<>>, err |-> "none", rc |-> 0, message |-> <<>>, calls |-> <<>>,
     warnings |-> <<>>, classified |-> NoNames, fail |-> fail, order |-> order]

Raise(st, e) == IF st.err # "none" THEN st ELSE [st EXCEPT !.err = e]

\* gravity.io.exception(message): raises
exception(st, msg) ==
    IF st.err # "none" THEN st ELSE [st EXCEPT !.err = "exception", !.message = msg]

Emit(st, ev) == IF st.err # "none" THEN st ELSE [st EXCEPT !.log = Append(@, ev)]

\* a Python set (or a directory listing) S, in the order this run iterates it
InOrder(st, S) == SelectSeq(st.order, LAMBDA f : f \in S)

(***************************************************************************)
(* systemd.py: SystemdService                                               *)
(***************************************************************************)
unit_prefix(config, service, uin) ==
    <<service.config_type>> \o (IF uin THEN <<"-", config.instance_name>> ELSE <<>>)
        \o <<"-", service.service_name>>

unit_file_name(config, service, uin) ==
    IF service.count > 1
    THEN unit_prefix(config, service, uin) \o <<"@", ".service">>
    ELSE unit_prefix(config, service, uin) \o <<".service">>

\* the replicas are numbered from 1
unit_names_from_one(config, service, uin) ==
    IF service.count > 1
    THEN [i \in 1..service.count |->
             unit_prefix(config, service, uin) \o <<"@", ToString(i), ".service">>]
    ELSE << unit_prefix(config, service, uin) \o <<".service">> >>

unit_names(config, service, uin) ==
    IF service.count > 1
    THEN [i \in 1..service.count |->
             unit_prefix(config, service, uin) \o <<"@", ToString(i - 1), ".service">>]
    ELSE << unit_prefix(config, service, uin) \o <<".service">> >>

\* SystemdService(config, service, use_instance_name): the names a caller reads from it
SystemdService(st, config, service, uin) ==
    Emit(st, [kind |-> "SystemdService",
              unit_prefix |-> unit_prefix(config, service, uin),
              unit_file_name |-> unit_file_name(config, service, uin),
              unit_names |-> unit_names(config, service, uin)])

(***************************************************************************)
(* systemd.py: SystemdProcessManager, control utility                      *)
(***************************************************************************)
IsExternal(ev) == ev.kind \in {"systemctl", "journalctl"}

ExternalCalls(l) == Len(SelectSeq(l, IsExternal))

\* __systemctl(verb, *opts, *units, ignore_rc=...): one subprocess call; a non-zero exit
\* raises CalledProcessError unless its code is in ignore_rc
__systemctl(st, verb, opts, units, ignore_rc) ==
    IF st.err # "none" THEN st
    ELSE LET rc == IF ExternalCalls(st.log) + 1 = st.fail.at THEN st.fail.rc ELSE 0
         IN [st EXCEPT !.log = Append(@, [kind |-> "systemctl", user |-> user_mode,
                                           verb |-> verb, opts |-> opts, units |-> units,
                                           rc |-> rc]),
                       !.err = IF rc # 0 /\ rc \notin ignore_rc THEN "CalledProcessError" ELSE @,
                       !.rc = IF rc # 0 /\ rc \notin ignore_rc THEN rc ELSE @]

__journalctl(st, opts, units) ==
    IF st.err # "none" THEN st
    ELSE LET rc == IF ExternalCalls(st.log) + 1 = st.fail.at THEN st.fail.rc ELSE 0
         IN [st EXCEPT !.log = Append(@, [kind |-> "journalctl", user |-> user_mode,
                                           verb |-> "-f", opts |-> opts, units |-> units,
                                           rc |-> rc]),
                       !.err = IF rc # 0 THEN "CalledProcessError" ELSE @,
                       !.rc = IF rc # 0 THEN rc ELSE @]

__target_unit_name(config, uin) ==
    <<config.config_type>> \o (IF uin THEN <<"-", config.instance_name>> ELSE <<>>)
        \o <<".target">>

(***************************************************************************)
(* __init__.py: BaseProcessManager file writing                            *)
(***************************************************************************)
_file_needs_update(fs, path, contents) ==
    IF path \in DOMAIN fs
    THEN (IF fs[path] = contents THEN FALSE ELSE TRUE)
    ELSE TRUE

\* what bool() makes of a returned value
Truthy(v) == v \notin {"None", "False"}

\* _update_file writes when the file is missing or differs; it has no return statement,
\* so its caller receives None
_update_file(st, path, contents) ==
    LET exists == path \in DOMAIN st.files
    IN IF (exists /\ _file_needs_update(st.files, path, contents)) \/ ~exists
       THEN [st |-> [st EXCEPT !.files = DictPut(@, path, contents),
                               !.log = Append(@, [kind |-> "write", path |-> path,
                                                  how |-> IF exists THEN "Updating" ELSE "Adding"])],
             ret |-> "None"]
       ELSE [st |-> st, ret |-> "None"]

(***************************************************************************)
(* systemd.py: update                                                      *)
(***************************************************************************)
\* __update_service (158-205).  Line 194 calls
\*     self._service_format_vars(config, service, systemd_format_vars)
\* with three arguments for the four parameters (config, service, program_name,
\* pm_format_vars) of __init__.py:92, so Python raises TypeError there: nothing is
\* rendered and _update_file (line 203) is not reached.
__update_service(st, config, service) ==
    LET virtualenv_dir == config.virtualenv
        environ_virtual_env == IF "VIRTUAL_ENV" \in DOMAIN os_environ
                               THEN os_environ["VIRTUAL_ENV"] ELSE <<>>
        st1 == IF virtualenv_dir = <<>> /\ user_mode /\ environ_virtual_env # <<>>
               THEN [st EXCEPT !.warnings = @ \o <<"Assuming Galaxy virtualenv is value of VIRTUAL_ENV",
                                                  "Set virtualenv in Gravity configuration to override">>]
               ELSE IF virtualenv_dir = <<>>
               THEN exception(st, <<"The virtualenv Gravity config option must be set when using the systemd process manager">>)
               ELSE st
    IN [st |-> Raise(st1, "TypeError"),
        conf |-> unit_file_name(config, service, use_instance_name)]

\* one service of the loop 218-225, r being what __update_service made of it
process_service(acc, r, config, service, clean) ==
    IF clean
    THEN [acc EXCEPT !.intended = @ \cup {unit_file_name(config, service, use_instance_name)}]
    ELSE IF r.st.err # "none"
    THEN [acc EXCEPT !.st = r.st]
    ELSE [st |-> r.st, intended |-> acc.intended \cup {r.conf},
          service_units |-> acc.service_units
                                \o unit_names(config, service, use_instance_name)]

RECURSIVE process_services(_, _, _, _)
\* the loop over config.services (218-225); acc = [st, intended, service_units]
process_services(acc, config, clean, services) ==
    IF services = <<>> \/ acc.st.err # "none" THEN acc
    ELSE process_services(
             process_service(acc, __update_service(acc.st, config, Head(services)),
                             config, Head(services), clean),
             config, clean, Tail(services))

capitalize(s) == CASE s = "galaxy" -> "Galaxy" [] s = "reports" -> "Reports" [] OTHER -> s

\* SYSTEMD_TARGET_TEMPLATE.format(systemd_description=..., systemd_target_wants=...)
target_contents(config, service_units) ==
    <<"target",
      <<capitalize(config.config_type)>>
          \o (IF use_instance_name THEN <<" ", config.instance_name>> ELSE <<>>),
      service_units>>

\* updated = False; if not clean: updated = self._update_file(...)  (237-239)
update_target(st, clean, path, contents) ==
    IF clean THEN [st |-> st, ret |-> "False"] ELSE _update_file(st, path, contents)

\* if updated: self.__systemctl("enable", target_conf)  (241-242)
enable_target(u, path) ==
    IF Truthy(u.ret) THEN __systemctl(u.st, "enable", <<>>, <<path>>, {}) ELSE u.st

\* lines 227-244, acc being the result of the loop over the services
process_target(acc, config, clean) ==
    IF acc.st.err # "none"
    THEN [st |-> acc.st, intended |-> acc.intended]
    ELSE [st |-> enable_target(
                    update_target(acc.st, clean, __target_unit_name(config, use_instance_name),
                                  target_contents(config, acc.service_units)),
                    __target_unit_name(config, use_instance_name)),
          intended |-> acc.intended \cup {__target_unit_name(config, use_instance_name)}]

_process_config(st, config, clean) ==
    process_target(
        process_services([st |-> [st EXCEPT !.unit_dir_exists = TRUE], intended |-> {},
                          service_units |-> <<>>],
                         config, clean, config.services),
        config, clean)

\* intended_configs = intended_configs | self._process_config(config, clean=clean)
add_intended(acc, r) == [st |-> r.st, intended |-> acc.intended \cup r.intended]

RECURSIVE process_configs_loop(_, _, _)
\* for config in configs (249-250)
process_configs_loop(acc, configs, clean) ==
    IF configs = <<>> \/ acc.st.err # "none" THEN acc
    ELSE process_configs_loop(add_intended(acc, _process_config(acc.st, Head(configs), clean)),
                              Tail(configs), clean)

\* the filter of lines 258-260
is_present_config(f) ==
    (Len(f) >= 2 /\ f[1] = "galaxy" /\ f[2] = "-"
        /\ (f[Len(f)] = ".service" \/ f[Len(f)] = ".target"))
    \/ f = <<"galaxy", ".target">>

present_configs(fs) == {f \in DOMAIN fs : is_present_config(f)}

unintended_configs(present, intended, clean) ==
    IF clean THEN present \cap intended ELSE present \ intended

\* os.unlink(file); self._service_changes = True, once disable --now has returned
unlink_disabled(st, file) ==
    IF st.err # "none" THEN st
    ELSE [st EXCEPT !.files = DictDel(@, file),
                    !.log = Append(@, [kind |-> "unlink", path |-> file]),
                    !.service_changes = "True"]

RECURSIVE remove_units(_, _)
\* for file in unintended_configs (269-274)
remove_units(st, fs) ==
    IF fs = <<>> \/ st.err # "none" THEN st
    ELSE remove_units(
             unlink_disabled(__systemctl(st, "disable", <<"--now">>, <<Head(fs)>>, {}),
                             Head(fs)),
             Tail(fs))

\* lines 252-274, acc being the result of the loop over the configs
reconcile(acc, clean) ==
    IF acc.st.err # "none" THEN acc.st
    ELSE IF acc.intended = {} /\ ~acc.st.unit_dir_exists THEN acc.st
    ELSE remove_units(acc.st,
             InOrder(acc.st, unintended_configs(present_configs(acc.st.files),
                                                acc.intended, clean)))

_process_configs(st, configs, clean) ==
    reconcile(process_configs_loop([st |-> st, intended |-> {}], configs, clean), clean)

\* glob(f"{config_type}-*.service") + glob(f"{config_type}-*.target") + glob(f"{config_type}.target")
force_units(st, config_type) ==
    InOrder(st, {f \in DOMAIN st.files :
                    Len(f) >= 3 /\ f[1] = config_type /\ f[2] = "-" /\ f[Len(f)] = ".service"})
    \o InOrder(st, {f \in DOMAIN st.files :
                    Len(f) >= 3 /\ f[1] = config_type /\ f[2] = "-" /\ f[Len(f)] = ".target"})
    \o InOrder(st, {f \in DOMAIN st.files : f = <<config_type, ".target">>})

RECURSIVE disable_units(_, _)
\* [self.__systemctl("disable", os.path.basename(u)) for u in units] (353)
disable_units(st, units) ==
    IF units = <<>> \/ st.err # "none" THEN st
    ELSE disable_units(__systemctl(st, "disable", <<>>, <<Head(units)>>, {}), Tail(units))

RECURSIVE unlink_units(_, _)
\* list(map(os.unlink, units)) (354)
unlink_units(st, units) ==
    IF units = <<>> \/ st.err # "none" THEN st
    ELSE unlink_units([st EXCEPT !.files = DictDel(@, Head(units)),
                                 !.log = Append(@, [kind |-> "unlink", path |-> Head(units)])],
                      Tail(units))

\* self._service_changes = True (355)
set_service_changes(st) ==
    IF st.err # "none" THEN st ELSE [st EXCEPT !.service_changes = "True"]

\* the files are deleted first and disabled afterwards
remove_forced_unlink_first(st, units) ==
    IF units = <<>> THEN st
    ELSE set_service_changes(disable_units(unlink_units(st, units), units))

\* if units: ... (350-355)
remove_forced(st, units) ==
    IF units = <<>> THEN st
    ELSE set_service_changes(unlink_units(disable_units(st, units), units))

RECURSIVE force_remove(_, _)
\* for config in configs (346-355)
force_remove(st, configs) ==
    IF configs = <<>> \/ st.err # "none" THEN st
    ELSE force_remove(remove_forced(st, force_units(st, Head(configs).config_type)),
                      Tail(configs))

\* if self._service_changes: daemon-reload (357-360).  The attribute exists only once
\* line 274 or 355 assigned it: reading it before is an AttributeError
reload_if_changed(st) ==
    IF st.err # "none" THEN st
    ELSE IF st.service_changes = "unset" THEN Raise(st, "AttributeError")
    ELSE IF st.service_changes = "True"
    THEN __systemctl(st, "daemon-reload", <<>>, <<>>, {})
    ELSE st

SystemdProcessManager_update(st, configs, force, clean) ==
    reload_if_changed(
        _process_configs(IF force THEN force_remove(st, configs) ELSE st, configs, clean))

(***************************************************************************)
(* systemd.py: the other operations of the backend                         *)
(***************************************************************************)
services_named(config, service_names) ==
    SelectSeq(config.services, LAMBDA s : s.service_name \in Range(service_names))

\* the unit names of the SystemdService of each service (286-288)
units_of(config, services) ==
    Flatten([i \in 1..Len(services) |-> unit_names(config, services[i], use_instance_name)])

\* the services of one config that __unit_names expands (279-285)
unit_services(config, service_names, use_target, include_services) ==
    IF service_names = <<>> /\ use_target
    THEN (IF include_services THEN config.services ELSE <<>>)
    ELSE IF service_names # <<>>
    THEN services_named(config, service_names)
    ELSE config.services

RECURSIVE __unit_names(_, _, _, _)
\* service_names = <<>> stands for None or an empty list (both are falsy)
__unit_names(configs, service_names, use_target, include_services) ==
    IF configs = <<>> THEN <<>>
    ELSE (IF service_names = <<>> /\ use_target
          THEN << __target_unit_name(Head(configs), use_instance_name) >> ELSE <<>>)
         \o units_of(Head(configs),
                     unit_services(Head(configs), service_names, use_target, include_services))
         \o __unit_names(Tail(configs), service_names, use_target, include_services)

\* follow resolves its units as start does
SystemdProcessManager_follow_with_target(st, configs, service_names) ==
    __journalctl(st, <<>>, __unit_names(configs, service_names, TRUE, FALSE))

SystemdProcessManager_follow(st, configs, service_names) ==
    __journalctl(st, <<>>, __unit_names(configs, service_names, FALSE, FALSE))

\* the verb is issued on the target and on the services
SystemdProcessManager_verb_with_services(st, verb, configs, service_names) ==
    __systemctl(st, verb, <<>>, __unit_names(configs, service_names, TRUE, TRUE), {})

\* start, stop and restart: one call of the verb on the resolved unit names
SystemdProcessManager_verb(st, verb, configs, service_names) ==
    __systemctl(st, verb, <<>>, __unit_names(configs, service_names, TRUE, FALSE), {})

RECURSIVE rolling_restart(_, _)
\* service.rolling_restart(restart_callbacks): the callbacks are called one after another
rolling_restart(st, units) ==
    IF units = <<>> \/ st.err # "none" THEN st
    ELSE rolling_restart(__systemctl(st, "reload-or-restart", <<>>, <<Head(units)>>, {}),
                         Tail(units))

\* every service is restarted with one call for all of its units
__graceful_service_batched(st, config, service) ==
    __systemctl(st, "reload-or-restart", <<>>,
                unit_names(config, service, use_instance_name), {})

__graceful_service(st, config, service) ==
    IF service.graceful_method = "ROLLING"
    THEN rolling_restart(Emit(st, [kind |-> "rolling_restart",
                                   service |-> service.service_name,
                                   callbacks |-> unit_names(config, service, use_instance_name)]),
                         unit_names(config, service, use_instance_name))
    ELSE __systemctl(st, "reload-or-restart", <<>>,
                     unit_names(config, service, use_instance_name), {})

RECURSIVE graceful_services(_, _, _)
graceful_services(st, config, services) ==
    IF services = <<>> \/ st.err # "none" THEN st
    ELSE graceful_services(__graceful_service(st, config, Head(services)), config,
                           Tail(services))

RECURSIVE SystemdProcessManager_graceful(_, _, _)
SystemdProcessManager_graceful(st, configs, service_names) ==
    IF configs = <<>> \/ st.err # "none" THEN st
    ELSE SystemdProcessManager_graceful(
             graceful_services(st, Head(configs),
                 IF service_names # <<>> THEN services_named(Head(configs), service_names)
                 ELSE Head(configs).services),
             Tail(configs), service_names)

\* the except clause raises whatever it caught
status_raises(st) == st

\* except CalledProcessError: exit code 4 is reported with gravity.io.error, any other
\* is raised again (337-341)
status_not_found(st) ==
    IF st.err = "CalledProcessError" /\ st.rc = 4
    THEN [st EXCEPT !.err = "none", !.rc = 0,
                    !.log = Append(@, [kind |-> "error",
                                       text |-> "Some expected systemd units were not found, did you forget to run galaxyctl update?"])]
    ELSE st

SystemdProcessManager_status(st, configs, service_names) ==
    status_not_found(__systemctl(st, "status", <<"--lines=0">>,
                                 __unit_names(configs, service_names, TRUE, TRUE), {3}))

SystemdProcessManager_shutdown(st) ==
    IF use_instance_name
    THEN LET configs == get_configs(registry, "systemd")
         IN __systemctl(st, "stop", <<>>,
                [i \in 1..Len(configs) |-> <<"galaxy", "-", configs[i].instance_name, ".target">>],
                {})
    ELSE __systemctl(st, "stop", <<>>, << <<"galaxy", ".target">> >>, {})

\* pm(*args): the arguments go to systemctl as they are
SystemdProcessManager_pm(st, args) ==
    IF args = <<>> THEN __systemctl(st, "", <<>>, <<>>, {})
    ELSE __systemctl(st, Head(args), Tail(args), <<>>, {})

\* terminate is a no-op; reload is not overridden, the inherited body is empty
SystemdProcessManager_terminate(st) == st

(***************************************************************************)
(* __init__.py: ProcessManagerRouter, name classification and routing     *)
(***************************************************************************)
\* the service names are looked up before the instance names
classify_name_service_first(reg, name) ==
    IF name \in get_configured_service_names(reg) \cup VALID_SERVICE_NAMES THEN "service"
    ELSE IF name \in get_registered_instance_names(reg) THEN "instance"
    ELSE "unknown"

\* the if / elif / else of lines 271-276 for one name
classify_name(reg, name) ==
    IF name \in get_registered_instance_names(reg) THEN "instance"
    ELSE IF name \in get_configured_service_names(reg) \cup VALID_SERVICE_NAMES THEN "service"
    ELSE "unknown"

names_classified(reg, names, class) ==
    SelectSeq(names, LAMBDA name : classify_name(reg, name) = class)

\* the check of lines 277-278 is left out
_instance_service_names_never_fatal(reg, names) ==
    [instance_names |-> names_classified(reg, names, "instance"),
     service_names |-> names_classified(reg, names, "service"),
     warnings |-> names_classified(reg, names, "unknown"),
     fatal |-> FALSE]

\* names = <<>> stands for None or an empty list (both skip the loop)
_instance_service_names(reg, names) ==
    [instance_names |-> names_classified(reg, names, "instance"),
     service_names |-> names_classified(reg, names, "service"),
     warnings |-> names_classified(reg, names, "unknown"),
     fatal |-> names # <<>>
               /\ names_classified(reg, names, "instance") = <<>>
               /\ names_classified(reg, names, "service") = <<>>]

\* inspect.getargspec(routed_func).args (without self) for the methods of the systemd
\* backend; reload is inherited from BaseProcessManager
systemd_params(func) ==
    CASE func \in {"start", "stop", "restart", "reload", "graceful", "status"}
            -> {"configs", "service_names"}
      [] func = "follow" -> {"configs", "service_names", "quiet"}
      [] func = "update" -> {"configs", "force", "clean"}
      [] OTHER -> {}

\* the same for a backend whose methods have the signatures BaseProcessManager declares
declared_params(func) ==
    CASE func \in {"start", "stop", "restart", "reload", "graceful"}
            -> {"configs", "service_names"}
      [] func = "follow" -> {"configs", "service_names", "quiet"}
      [] func = "update" -> {"configs", "service_names", "force"}
      [] OTHER -> {}

routed_func_params(pm_name, func) ==
    IF pm_name = "systemd" THEN systemd_params(func) ELSE declared_params(func)

\* a method declared with **kwargs takes any keyword
takes_any_keyword(pm_name, func) == pm_name # "systemd" /\ func = "pm"

RECURSIVE by_pm_keys(_)
\* configs_by_pm.keys(): the backends in the order their first config appears (38-42)
by_pm_keys(configs) ==
    IF configs = <<>> THEN <<>>
    ELSE LET rest == by_pm_keys(SelectSeq(Tail(configs),
                         LAMBDA c : c.process_manager # Head(configs).process_manager))
         IN <<Head(configs).process_manager>> \o rest

\* every config lands in every backend's list
configs_by_pm_unfiltered(configs, pm_name) == configs

\* configs_by_pm.get(pm_name, [])
configs_by_pm(configs, pm_name) == SelectSeq(configs, LAMBDA c : c.process_manager = pm_name)

\* pm_names of lines 35 and 43-44
routed_pm_names(configs, all_process_managers) ==
    IF all_process_managers THEN process_managers ELSE by_pm_keys(configs)

kwarg(kwargs, key, default) == IF key \in DOMAIN kwargs THEN kwargs[key] ELSE default

\* the body of the routed backend method
backend_method(st, pm_name, func, args, kwargs) ==
    IF pm_name # "systemd" THEN st
    ELSE LET configs == kwarg(kwargs, "configs", <<>>)
             service_names == kwarg(kwargs, "service_names", <<>>)
         IN CASE func \in {"start", "stop", "restart"}
                    -> SystemdProcessManager_verb(st, func, configs, service_names)
              [] func = "follow" -> SystemdProcessManager_follow(st, configs, service_names)
              [] func = "graceful" -> SystemdProcessManager_graceful(st, configs, service_names)
              [] func = "status" -> SystemdProcessManager_status(st, configs, service_names)
              [] func = "update" -> SystemdProcessManager_update(st, configs,
                                        kwarg(kwargs, "force", FALSE), kwarg(kwargs, "clean", FALSE))
              [] func = "shutdown" -> SystemdProcessManager_shutdown(st)
              [] func = "pm" -> SystemdProcessManager_pm(st, args)
              [] OTHER -> SystemdProcessManager_terminate(st)

\* what the call log keeps of the keyword arguments: configs by instance name
kwargs_seen(kwargs) ==
    [k \in DOMAIN kwargs |->
        IF k = "configs" THEN [i \in 1..Len(kwargs[k]) |-> kwargs[k][i].instance_name]
        ELSE kwargs[k]]

\* routed_func(*args, **kwargs): a keyword the method does not take is a TypeError
call_routed_func(st, pm_name, func, args, kwargs) ==
    IF st.err # "none" THEN st
    ELSE IF ~takes_any_keyword(pm_name, func)
            /\ ~((DOMAIN kwargs) \subseteq routed_func_params(pm_name, func))
    THEN Raise(st, "TypeError")
    ELSE backend_method([st EXCEPT !.calls = Append(@, [pm |-> pm_name, func |-> func,
                                                       kwargs |-> kwargs_seen(kwargs)])],
                        pm_name, func, args, kwargs)

\* kwargs after lines 48-55 for one backend: the dict is the same object for all backends
routed_kwargs(kwargs, pm_name, func, configs, service_names) ==
    LET params == routed_func_params(pm_name, func)
        kw1 == IF "configs" \in params
               THEN DictPut(kwargs, "configs", configs_by_pm(configs, pm_name))
               ELSE kwargs
    IN IF "service_names" \in params THEN DictPut(kw1, "service_names", service_names) ELSE kw1

\* the first of two errors is the one the caller sees
first_error(before, after) ==
    IF before.err # "none" THEN [after EXCEPT !.err = before.err] ELSE after

RECURSIVE route_loop_keep_going(_, _, _, _, _, _, _)
\* the loop goes on with the next backend after an error
route_loop_keep_going(st, func, pm_names, args, kwargs, configs, service_names) ==
    IF pm_names = <<>> THEN st
    ELSE route_loop_keep_going(
             first_error(st,
                 call_routed_func([st EXCEPT !.err = "none"], Head(pm_names), func, args,
                     routed_kwargs(kwargs, Head(pm_names), func, configs, service_names))),
             func, Tail(pm_names), args,
             routed_kwargs(kwargs, Head(pm_names), func, configs, service_names),
             configs, service_names)

RECURSIVE route_loop(_, _, _, _, _, _, _)
\* one backend of the loop, kw being kwargs after lines 48-55
route_step(st, func, pm_names, args, kw, configs, service_names) ==
    route_loop(call_routed_func(st, Head(pm_names), func, args, kw),
               func, Tail(pm_names), args, kw, configs, service_names)

\* for pm_name in pm_names: ... routed_func(*args, **kwargs) (45-56)
route_loop(st, func, pm_names, args, kwargs, configs, service_names) ==
    IF pm_names = <<>> \/ st.err # "none" THEN st
    ELSE route_step(st, func, pm_names, args,
                    routed_kwargs(kwargs, Head(pm_names), func, configs, service_names),
                    configs, service_names)

\* the warnings _instance_service_names gave and the tuple it returns (276, 279)
names_classified_in(st, r) ==
    [st EXCEPT !.warnings = r.warnings,
               !.classified = [instance_names |-> r.instance_names,
                               service_names |-> r.service_names]]

\* lines 37-56, r being the classified names
route_classified(st, r, func, all_process_managers, args, kwargs) ==
    IF r.fatal
    THEN exception([st EXCEPT !.warnings = r.warnings],
                   <<"No provided names are known instance or service names">>)
    ELSE route_loop(names_classified_in(st, r), func,
                    routed_pm_names(get_registered_configs(registry, r.instance_names),
                                    all_process_managers),
                    args, kwargs, get_registered_configs(registry, r.instance_names),
                    r.service_names)

_route(st, func, all_process_managers, names, args, kwargs) ==
    route_classified(st, _instance_service_names(registry, names), func,
                     all_process_managers, args, kwargs)

(***************************************************************************)
(* __init__.py: format variables and ProcessExecutor                       *)
(***************************************************************************)
state_dir == <<"/var/lib/gravity">>

_service_program_name(instance_name, service) ==
    <<instance_name, "_", service.config_type, "_", service.service_type, "_",
      service.service_name>>

\* service.get_environment() updated with attribs[environment_from]["environment"]
_service_environment(service, attribs_environment) ==
    LET environment_from == IF service.environment_from = ""
                            THEN service.service_type ELSE service.environment_from
    IN DictUnion(service.environment,
                 IF environment_from \in DOMAIN attribs_environment
                 THEN attribs_environment[environment_from] ELSE EmptyDict)

\* template.format(**format_vars): every {key} part is replaced by its value
format(template, format_vars) ==
    Flatten([i \in 1..Len(template) |->
                IF template[i] \in DOMAIN format_vars THEN format_vars[template[i]]
                ELSE <<template[i]>>])

\* ProcessExecutor._service_environment_formatter
_service_environment_formatter(environment, format_vars) ==
    [k \in DOMAIN environment |-> format(environment[k], format_vars)]

\* _service_format_vars of a ProcessExecutor (its _service_default_path is
\* os.environ["PATH"], evaluated as the default argument of environment.get even when
\* the environment has a PATH)
_service_format_vars(config, service, program_name, pm_format_vars) ==
    LET virtualenv_dir == config.virtualenv
        base_vars == ("{config_type}" :> <<service.config_type>>)
                     @@ ("{server_name}" :> <<service.service_name>>)
                     @@ ("{program_name}" :> program_name)
                     @@ ("{galaxy_conf}" :> config.file)
                     @@ ("{galaxy_root}" :> config.galaxy_root)
                     @@ ("{virtualenv_bin}" :> IF virtualenv_dir # <<>>
                                               THEN virtualenv_dir \o <<"/bin", "/">> ELSE <<>>)
                     @@ ("{state_dir}" :> state_dir)
        format_vars == DictUnion(base_vars, pm_format_vars)
        direct == config.service_command_style = "direct"
        virtualenv_bin == format_vars["{virtualenv_bin}"]
        add_path == virtualenv_bin # <<>> /\ service.add_virtualenv_to_path
        environment == _service_environment(service, config.attribs_environment)
        path == IF "PATH" \in DOMAIN environment THEN environment["PATH"] ELSE os_environ["PATH"]
    IN IF direct /\ add_path /\ "PATH" \notin DOMAIN os_environ
       THEN [err |-> "KeyError"]
       ELSE IF direct
       THEN [err |-> "none",
             command |-> format(service.command_template, format_vars),
             galaxy_root |-> config.galaxy_root,
             environment |-> _service_environment_formatter(
                 IF add_path
                 THEN DictPut(environment, "PATH", virtualenv_bin \o <<":">> \o path)
                 ELSE environment,
                 format_vars)]
       ELSE [err |-> "none",
             command |-> <<"galaxyctl exec ", config.instance_name, " ">> \o program_name,
             galaxy_root |-> config.galaxy_root,
             environment |-> _service_environment_formatter(
                 ("GRAVITY_STATE_DIR" :> <<"{state_dir}">>), format_vars)]

\* env = format_vars["environment"] | dict(os.environ)  (line 236)
exec_env(environment, environ) == DictUnion(environment, environ)

\* ProcessExecutor.exec after config.service_command_style = direct (line 231)
ProcessExecutor_exec(st, config, service) ==
    LET service_name == service.service_name
        format_vars == _service_format_vars(config, service, <<service_name>>, EmptyDict)
    IN IF format_vars.err # "none" THEN Raise(st, format_vars.err)
       ELSE Emit(Emit(st, [kind |-> "chdir", cwd |-> format_vars.galaxy_root]),
                 [kind |-> "execvpe", instance |-> config.instance_name,
                  service |-> service_name, cmd |-> format_vars.command,
                  resolved |-> format_vars.environment,
                  env |-> exec_env(format_vars.environment, os_environ)])

\* no instance name is needed, whatever the registry holds
implicit_instance_anywhere(instance_names, reg) == Len(instance_names) = 0

\* len(instance_names) == 0 and self.config_manager.single_instance (285)
implicit_instance(instance_names, reg) ==
    Len(instance_names) = 0 /\ single_instance(reg)

service_list(config) == [i \in 1..Len(config.services) |-> config.services[i].service_name]

\* the command style of the config is forced before the names are checked
exec_exception_after_style(st, msg, config) ==
    [st |-> exception(st, msg), config |-> config.instance_name]

\* gravity.io.exception raised by exec (278, 288, 294, 299): ProcessExecutor.exec has not
\* been called, no config has been touched
exec_exception(st, msg, config) == [st |-> exception(st, msg), config |-> ""]

\* ProcessManagerRouter.exec: [st, config] where config is the instance name of the
\* config handed to ProcessExecutor.exec, "" if exec failed before that
ProcessManagerRouter_exec(st, names) ==
    LET r == _instance_service_names(registry, names)
        st1 == IF r.fatal THEN [st EXCEPT !.warnings = r.warnings]
               ELSE names_classified_in(st, r)
        implicit == implicit_instance(r.instance_names, registry)
        config == get_registered_configs(registry,
                      IF implicit THEN <<>> ELSE r.instance_names)[1]
        services == SelectSeq(config.services,
                        LAMBDA s : s.service_name = r.service_names[1])
    IN IF r.fatal
       THEN exec_exception(st1, <<"No provided names are known instance or service names">>,
                           config)
       ELSE IF ~implicit /\ Len(r.instance_names) # 1
       THEN exec_exception(st1, <<"Only zero or one instance name can be provided">>, config)
       ELSE IF Len(r.service_names) # 1
       THEN exec_exception(st1,
                <<"Exactly one service name must be provided. Configured service(s): ",
                  service_list(config)>>, config)
       ELSE IF services = <<>>
       THEN exec_exception(st1,
                <<"Service is not configured. Configured service(s): ",
                  service_list(config)>>, config)
       ELSE [st |-> ProcessExecutor_exec(st1,
                        [config EXCEPT !.service_command_style = "direct"], services[1]),
             config |-> config.instance_name]

(***************************************************************************)
(* Format variables resolved by the systemd backend                        *)
(* (BaseProcessExecutionEnvironment._service_format_vars with self a       *)
(* SystemdProcessManager)                                                  *)
(***************************************************************************)
\* characters shlex.quote does not leave as they are
unsafe_parts == {" ", "$", "'"}

\* shlex.quote: a string of safe characters is returned as it is; the empty string and a
\* string with any other character are put in single quotes
shlex_quote(v) ==
    IF v = <<>> THEN <<"''">>
    ELSE IF \E i \in 1..Len(v) : v[i] \in unsafe_parts THEN <<"'">> \o v \o <<"'">>
    ELSE v

\* SystemdProcessManager._service_environment_formatter: one Environment= line per
\* variable (the lines are kept by variable)
SystemdProcessManager__service_environment_formatter(environment, format_vars) ==
    [k \in DOMAIN environment |->
        <<"Environment=", k, "=">> \o shlex_quote(format(environment[k], format_vars))]

\* the inherited _service_default_path of the base class: no control-utility call
_service_default_path_without_call(st, shown) ==
    [st |-> st, none |-> "PATH" \notin DOMAIN shown,
     value |-> IF "PATH" \in DOMAIN shown THEN shown["PATH"] ELSE <<>>]

\* SystemdProcessManager._service_default_path: the PATH= line of the captured output of
\* `systemctl show-environment` (shown); the for loop returns None when no line is PATH=
SystemdProcessManager__service_default_path(st, shown) ==
    [st |-> __systemctl(st, "show-environment", <<>>, <<>>, {}),
     none |-> "PATH" \notin DOMAIN shown,
     value |-> IF "PATH" \in DOMAIN shown THEN shown["PATH"] ELSE <<>>]

\* the format_vars dict of lines 97-107 (the keys the templates of the model use)
base_format_vars(config, service, program_name) ==
    ("{config_type}" :> <<service.config_type>>)
    @@ ("{server_name}" :> <<service.service_name>>)
    @@ ("{program_name}" :> program_name)
    @@ ("{galaxy_conf}" :> config.file)
    @@ ("{galaxy_root}" :> config.galaxy_root)
    @@ ("{virtualenv_bin}" :> IF config.virtualenv # <<>>
                              THEN config.virtualenv \o <<"/bin", "/">> ELSE <<>>)
    @@ ("{state_dir}" :> state_dir)

\* the virtualenv's bin directory is put behind the path
append_virtualenv_bin(environment, virtualenv_bin, default) ==
    DictPut(environment, "PATH",
            (IF "PATH" \in DOMAIN environment THEN environment["PATH"] ELSE default)
                \o <<":">> \o virtualenv_bin)

\* environment["PATH"] = ":".join([virtualenv_bin, path]) with
\* path = environment.get("PATH", default) (122-123)
prepend_virtualenv_bin(environment, virtualenv_bin, default) ==
    DictPut(environment, "PATH",
            virtualenv_bin \o <<":">>
                \o (IF "PATH" \in DOMAIN environment THEN environment["PATH"] ELSE default))

\* lines 121-123, dp being what self._service_default_path() returned: the default
\* argument of environment.get is evaluated before the lookup; joining None is a TypeError
path_from_default(dp, environment, virtualenv_bin) ==
    IF dp.st.err # "none" THEN [st |-> dp.st, environment |-> environment]
    ELSE IF "PATH" \notin DOMAIN environment /\ dp.none
    THEN [st |-> Raise(dp.st, "TypeError"), environment |-> environment]
    ELSE [st |-> dp.st,
          environment |-> prepend_virtualenv_bin(environment, virtualenv_bin, dp.value)]

\* lines 119-123 on the systemd backend
systemd_direct_environment(st, environment, virtualenv_bin, add_virtualenv_to_path, shown) ==
    IF virtualenv_bin # <<>> /\ add_virtualenv_to_path
    THEN path_from_default(SystemdProcessManager__service_default_path(st, shown),
                           environment, virtualenv_bin)
    ELSE [st |-> st, environment |-> environment]

\* line 127 and the returned dict, r being the environment of lines 119-126
systemd_formatted(r, command, config, format_vars) ==
    [st |-> r.st, command |-> command, galaxy_root |-> config.galaxy_root,
     environment |-> SystemdProcessManager__service_environment_formatter(r.environment,
                                                                         format_vars)]

\* lines 113-129, format_vars being the dict after format_vars.update(pm_format_vars)
systemd_styled(st, config, service, program_name, format_vars, shown) ==
    IF config.service_command_style = "direct"
    THEN systemd_formatted(
             systemd_direct_environment(st,
                 _service_environment(service, config.attribs_environment),
                 format_vars["{virtualenv_bin}"], service.add_virtualenv_to_path, shown),
             format(service.command_template, format_vars), config, format_vars)
    ELSE systemd_formatted(
             [st |-> st, environment |-> ("GRAVITY_STATE_DIR" :> <<"{state_dir}">>)],
             <<"galaxyctl exec ", config.instance_name, " ">> \o program_name,
             config, format_vars)

\* _service_format_vars(config, service, program_name, pm_format_vars) called on the
\* systemd backend: [st, command, galaxy_root, environment]
SystemdProcessManager__service_format_vars(st, config, service, program_name, pm_format_vars, shown) ==
    systemd_styled(st, config, service, program_name,
                   DictUnion(base_format_vars(config, service, program_name), pm_format_vars),
                   shown)

\* what the caller holds after one resolution: the returned dict, or the exception
resolved_by_systemd(st, r) ==
    IF r.st.err # "none" THEN r.st
    ELSE Emit(r.st, [kind |-> "format_vars", command |-> r.command,
                     environment |-> r.environment])

resolved_by_executor(st, r) ==
    IF r.err # "none" THEN Raise(st, r.err)
    ELSE Emit(st, [kind |-> "format_vars", command |-> r.command,
                   environment |-> r.environment])

\* one call of _service_format_vars on the systemd backend or on the ProcessExecutor
resolve(st, resolver, config, service, pm_format_vars, shown) ==
    IF st.err # "none" THEN st
    ELSE IF resolver = "SystemdProcessManager"
    THEN resolved_by_systemd(st,
             SystemdProcessManager__service_format_vars(st, config, service,
                 _service_program_name(config.instance_name, service), pm_format_vars, shown))
    ELSE resolved_by_executor(st,
             _service_format_vars(config, service,
                 _service_program_name(config.instance_name, service), pm_format_vars))

RECURSIVE resolve_times(_, _, _, _, _, _, _)
\* the same (config, service) resolved n times in a row
resolve_times(st, n, resolver, config, service, pm_format_vars, shown) ==
    IF n = 0 THEN st
    ELSE resolve_times(resolve(st, resolver, config, service, pm_format_vars, shown),
                       n - 1, resolver, config, service, pm_format_vars, shown)

(***************************************************************************)
(* cmd_exec.py: the exec command line                                      *)
(***************************************************************************)
\* the parts of a rendered command, the one part that holds blanks spelled out
command_parts(command) ==
    Flatten([i \in 1..Len(command) |->
                IF command[i] = "galaxyctl exec " THEN <<"galaxyctl", " ", "exec", " ">>
                ELSE <<command[i]>>])

RECURSIVE split_words(_, _)
\* the words between the blanks; word is the word read so far
split_words(parts, word) ==
    IF parts = <<>> THEN (IF word = "" THEN <<>> ELSE <<word>>)
    ELSE IF Head(parts) = " "
    THEN (IF word = "" THEN <<>> ELSE <<word>>) \o split_words(Tail(parts), "")
    ELSE split_words(Tail(parts), word \o Head(parts))

\* the argument vector the shell makes of the command line
shlex_split(command) == split_words(command_parts(command), "")

\* the INSTANCES / SERVICES arguments of `galaxyctl exec`: the words after the subcommand
instances_services(argv) == SubSeq(argv, 3, Len(argv))

\* the command _service_format_vars renders for the config in its gravity style
synthesized_command(config, service, program_name) ==
    _service_format_vars([config EXCEPT !.service_command_style = "gravity"], service,
                         program_name, EmptyDict).command

\* cli: pm.exec(instance_names=instances_services) for the command line given
cmd_exec_cli(st, command) ==
    ProcessManagerRouter_exec(st, instances_services(shlex_split(command)))

(***************************************************************************)
(* __init__.py: the process_manager() context                              *)
(***************************************************************************)
\* the body of a `with process_manager(...) as pm:` block: pm.exec(...) as in cmd_exec,
\* or one routed operation; [st, config] as ProcessManagerRouter_exec
process_manager_block(st, func, names) ==
    IF func = "exec" THEN ProcessManagerRouter_exec(st, names)
    ELSE [st |-> _route(st, func, FALSE, names, <<>>, EmptyDict), config |-> ""]

\* pm.terminate() called where the block has ended, st being the state the block left:
\* the names the block classified stay what they were
terminate_after(st) ==
    [_route([st EXCEPT !.err = "none"], "terminate", FALSE, <<>>, <<>>, EmptyDict)
        EXCEPT !.warnings = st.warnings, !.classified = st.classified]

\* the exception of the block is raised again once terminate has returned; an exception
\* of terminate takes its place
raised_again(st, t) == IF t.err # "none" THEN t ELSE [t EXCEPT !.err = st.err]

\* terminate is called only when the block has not raised
terminate_unless_raised(st) ==
    IF st.err # "none" THEN st ELSE raised_again(st, terminate_after(st))

\* try: yield pm  finally: pm.terminate()  (23-26)
finally_terminate(st) == raised_again(st, terminate_after(st))

(***************************************************************************)
(* Inputs                                                                  *)
(***************************************************************************)
Tokens == {"main", "reports", "gunicorn", "bogus"}

TokenLists == SeqsUpTo(Tokens, MaxTokens)

\* the failures an operation can meet: reload and terminate make no control-utility
\* call, graceful and update make several, the others make one; exit codes other than 3
\* and 4 are told apart by nobody, 3 and 4 only by status
FailsOf(func) ==
    CASE func \in {"reload", "terminate"} -> {NoFail}
      [] func = "status" -> {f \in Fails : f.at <= 1}
      [] func \in {"graceful", "update"} -> {f \in Fails : f.rc \in {0, 1}}
      [] OTHER -> {f \in Fails : f.at <= 1 /\ f.rc \in {0, 1}}

\* a method called on the backend itself meets every exit code
BackendFailsOf(func) ==
    IF func = "graceful" THEN Fails ELSE {f \in Fails : f.at <= 1}

PmArgs == {<<"list-units">>}

OsEnvirons ==
    {("PATH" :> <<"/usr/bin">>),
     ("PATH" :> <<"/usr/bin">>) @@ ("GALAXY_CONFIG_FILE" :> <<"/inherited.yml">>),
     ("PATH" :> <<"/usr/bin">>) @@ ("VIRTUAL_ENV" :> <<"/env">>),
     ("HOME" :> <<"/root">>)}

\* files found in the unit directory: a target, a unit no config intends and a unit of
\* the reports config type
InitialFiles ==
    {<<"galaxy", ".target">>, <<"galaxy", "-", "old", ".service">>,
     <<"reports", "-", "reports", ".service">>}

Disks == {[f \in S |-> <<"old">>] : S \in SUBSET InitialFiles}

\* the service-name filters a backend method may be given
ServiceNameLists == SeqsUpTo({"gunicorn", "celery", "workflow"}, MaxTokens)

\* the variables `systemctl show-environment` prints: with and without a PATH= line
ShownEnvironments == {("PATH" :> <<"/usr/bin">>), ("LANG" :> <<"C">>)}

\* pm_format_vars: none, or the virtualenv_bin override of systemd.py 181
PmFormatVars == {EmptyDict, ("{virtualenv_bin}" :> <<"/env", "/bin", "/">>)}

\* ServiceCommandStyle: gravity (galaxyctl exec ...) and direct
Styles == {"gravity", "direct"}

Resolvers == {"SystemdProcessManager", "ProcessExecutor"}

(***************************************************************************)
(* Actions                                                                 *)
(***************************************************************************)
Fixed == UNCHANGED <<process_managers, use_instance_name, user_mode, os_environ>>

\* subject: what a call made on one object (a backend, a resolver) was given
NoOp == [name |-> "none", names |-> <<>>, configs |-> <<>>, force |-> FALSE, clean |-> FALSE,
         subject |-> <<>>]

\* the operation returns (or raises): st becomes the state
Finish(st, o) ==
    /\ files' = st.files
    /\ unit_dir_exists' = st.unit_dir_exists
    /\ service_changes' = st.service_changes
    /\ calls' = st.calls
    /\ log' = st.log
    /\ err' = st.err
    /\ message' = st.message
    /\ warnings' = st.warnings
    /\ classified' = st.classified
    /\ files_before' = files
    /\ op' = o

Begin(fail, order) == Start(files, unit_dir_exists, service_changes, fail, order)

\* a method decorated with @route
Route(func, names, args, fail) ==
    /\ pc = "idle"
    /\ Finish(_route(Begin(fail, <<>>), func, FALSE, names, args, EmptyDict),
              [NoOp EXCEPT !.name = func, !.names = names])
    /\ pc' = "returned"
    /\ UNCHANGED registry
    /\ Fixed

RouterFollow(names, fail) == Route("follow", names, <<>>, fail)
RouterStart(names, fail) == Route("start", names, <<>>, fail)
RouterStop(names, fail) == Route("stop", names, <<>>, fail)
RouterRestart(names, fail) == Route("restart", names, <<>>, fail)
RouterReload(names, fail) == Route("reload", names, <<>>, fail)
RouterGraceful(names, fail) == Route("graceful", names, <<>>, fail)
RouterStatus(names, fail) == Route("status", names, <<>>, fail)
RouterShutdown(names, fail) == Route("shutdown", names, <<>>, fail)
RouterTerminate(names, fail) == Route("terminate", names, <<>>, fail)
RouterPm(names, args, fail) == Route("pm", names, args, fail)

\* ProcessManagerRouter.update, decorated with @route_to_all
RouterUpdate(names, force, fail, order) ==
    /\ pc = "idle"
    /\ Finish(_route(Begin(fail, order), "update", TRUE, names, <<>>, ("force" :> force)),
              [NoOp EXCEPT !.name = "update", !.names = names, !.force = force])
    /\ pc' = "returned"
    /\ UNCHANGED registry
    /\ Fixed

\* SystemdProcessManager.update(configs, force, clean) called on the backend
SystemdUpdate(configs, force, clean, fail, order) ==
    /\ pc = "idle"
    /\ Finish(SystemdProcessManager_update(Begin(fail, order), configs, force, clean),
              [NoOp EXCEPT !.name = "systemd.update",
                           !.configs = [i \in 1..Len(configs) |-> configs[i].instance_name],
                           !.force = force, !.clean = clean])
    /\ pc' = "returned"
    /\ UNCHANGED registry
    /\ Fixed

\* ProcessManagerRouter.exec: the process image is replaced, or exec raises
RouterExec(names) ==
    /\ pc = "idle"
    /\ LET r == ProcessManagerRouter_exec(Begin(NoFail, <<>>), names)
       IN /\ Finish(r.st, [NoOp EXCEPT !.name = "exec", !.names = names])
          /\ registry' = [i \in 1..Len(registry) |->
                            IF registry[i].instance_name = r.config
                            THEN [registry[i] EXCEPT !.service_command_style = "direct"]
                            ELSE registry[i]]
          /\ pc' = IF r.st.err = "none" THEN "replaced" ELSE "returned"
    /\ Fixed

\* the command rendered for (config, service) in the gravity style is run: `galaxyctl
\* exec <instance_name> <program_name>` goes through cli to ProcessManagerRouter.exec
ExecSynthesized(config, service, program_name) ==
    /\ pc = "idle"
    /\ LET command == synthesized_command(config, service, program_name)
           r == cmd_exec_cli(Begin(NoFail, <<>>), command)
       IN /\ Finish(r.st, [NoOp EXCEPT !.name = "exec.synthesized",
                                       !.names = instances_services(shlex_split(command)),
                                       !.subject = <<[config |-> config.instance_name,
                                                      service |-> service.service_name,
                                                      program_name |-> program_name,
                                                      command |-> command]>>])
          /\ registry' = [i \in 1..Len(registry) |->
                            IF registry[i].instance_name = r.config
                            THEN [registry[i] EXCEPT !.service_command_style = "direct"]
                            ELSE registry[i]]
          /\ pc' = IF r.st.err = "none" THEN "replaced" ELSE "returned"
    /\ Fixed

\* with process_manager(...) as pm: pm.<func>(instance_names=names).  os.execvpe does not
\* return, so after an exec that succeeds the block is never left
ProcessManagerContext(func, names, fail) ==
    /\ pc = "idle"
    /\ LET b == process_manager_block(Begin(fail, <<>>), func, names)
           replaced == func = "exec" /\ b.st.err = "none"
       IN /\ Finish(IF replaced THEN b.st ELSE finally_terminate(b.st),
                    [NoOp EXCEPT !.name = "process_manager", !.names = names,
                                 !.subject = <<func>>])
          /\ registry' = [i \in 1..Len(registry) |->
                            IF registry[i].instance_name = b.config
                            THEN [registry[i] EXCEPT !.service_command_style = "direct"]
                            ELSE registry[i]]
          /\ pc' = IF replaced THEN "replaced" ELSE "returned"
    /\ Fixed

ContextExec(names) == ProcessManagerContext("exec", names, NoFail)
ContextStart(names, fail) == ProcessManagerContext("start", names, fail)
ContextStatus(names, fail) == ProcessManagerContext("status", names, fail)

\* how the operation record names a method called on the backend itself
SystemdOpName(func) ==
    CASE func = "follow" -> "systemd.follow"
      [] func = "start" -> "systemd.start"
      [] func = "stop" -> "systemd.stop"
      [] func = "restart" -> "systemd.restart"
      [] func = "graceful" -> "systemd.graceful"
      [] func = "status" -> "systemd.status"

\* start, stop, restart, follow, status or graceful called on the systemd backend
SystemdOp(func, configs, service_names, fail) ==
    /\ pc = "idle"
    /\ Finish(backend_method(Begin(fail, <<>>), "systemd", func, <<>>,
                             ("configs" :> configs) @@ ("service_names" :> service_names)),
              [NoOp EXCEPT !.name = SystemdOpName(func),
                           !.configs = [i \in 1..Len(configs) |-> configs[i].instance_name],
                           !.names = service_names])
    /\ pc' = "returned"
    /\ UNCHANGED registry
    /\ Fixed

SystemdFollow(configs, service_names, fail) == SystemdOp("follow", configs, service_names, fail)
SystemdStart(configs, service_names, fail) == SystemdOp("start", configs, service_names, fail)
SystemdStop(configs, service_names, fail) == SystemdOp("stop", configs, service_names, fail)
SystemdRestart(configs, service_names, fail) == SystemdOp("restart", configs, service_names, fail)
SystemdGraceful(configs, service_names, fail) == SystemdOp("graceful", configs, service_names, fail)
SystemdStatus(configs, service_names, fail) == SystemdOp("status", configs, service_names, fail)

\* a SystemdService is constructed for a service and its names are read
NewSystemdService(config, service) ==
    /\ pc = "idle"
    /\ Finish(SystemdService(Begin(NoFail, <<>>), config, service, use_instance_name),
              [NoOp EXCEPT !.name = "SystemdService",
                           !.subject = <<[config |-> config, service |-> service]>>])
    /\ pc' = "returned"
    /\ UNCHANGED registry
    /\ Fixed

\* _service_format_vars(config, service, program_name, pm_format_vars) called times
\* times on a backend or on the executor
ResolveFormatVars(resolver, config, service, pm_format_vars, shown, times, fail) ==
    /\ pc = "idle"
    /\ Finish(resolve_times(Begin(fail, <<>>), times, resolver, config, service,
                            pm_format_vars, shown),
              [NoOp EXCEPT !.name = "resolve",
                           !.subject = <<[resolver |-> resolver, config |-> config,
                                          service |-> service,
                                          pm_format_vars |-> pm_format_vars,
                                          shown |-> shown, times |-> times]>>])
    /\ pc' = "returned"
    /\ UNCHANGED registry
    /\ Fixed

\* control is back at the caller, which holds the same router and backends
Return ==
    /\ pc = "returned"
    /\ pc' = "idle"
    /\ op' = NoOp
    /\ calls' = <<>>
    /\ log' = <<>>
    /\ err' = "none"
    /\ message' = <<>>
    /\ warnings' = <<>>
    /\ classified' = NoNames
    /\ files_before' = files
    /\ UNCHANGED <<registry, files, unit_dir_exists, service_changes>>
    /\ Fixed

\* the process ends and the next command constructs a new router and new backends
NewProcess ==
    /\ pc = "idle"
    /\ service_changes # "unset"
    /\ service_changes' = "unset"
    /\ UNCHANGED <<registry, files, unit_dir_exists, pc, op, calls, log, err, message,
                   warnings, classified, files_before>>
    /\ Fixed

\* the sublists of the registry a caller may hand to a backend
ConfigLists == {<<>>, registry} \cup {<<registry[i]>> : i \in 1..Len(registry)}

Orders == Perms(DOMAIN files)

InitWith(Regs, PMOrders, Environs, Ds, DirExists, UserModes) ==
    /\ registry \in Regs
    /\ process_managers \in PMOrders
    /\ use_instance_name \in BOOLEAN
    /\ user_mode \in UserModes
    /\ os_environ \in Environs
    /\ files \in Ds
    /\ unit_dir_exists \in (IF DOMAIN files = {} THEN DirExists ELSE {TRUE})
    /\ service_changes = "unset"
    /\ pc = "idle"
    /\ op = NoOp
    /\ calls = <<>>
    /\ log = <<>>
    /\ err = "none"
    /\ message = <<>>
    /\ warnings = <<>>
    /\ classified = NoNames
    /\ files_before = files

WithVenv(Regs) == {r \in Regs : \A i \in 1..Len(r) : r[i].virtualenv # <<>>}

BoundTo(Regs, pm) == {r \in Regs : \A i \in 1..Len(r) : r[i].process_manager = pm}

DefaultEnviron == {("PATH" :> <<"/usr/bin">>)}

NextRoute ==
    \/ \E names \in TokenLists, fail \in FailsOf("follow") : RouterFollow(names, fail)
    \/ \E names \in TokenLists, fail \in FailsOf("start") : RouterStart(names, fail)
    \/ \E names \in TokenLists, fail \in FailsOf("stop") : RouterStop(names, fail)
    \/ \E names \in TokenLists, fail \in FailsOf("restart") : RouterRestart(names, fail)
    \/ \E names \in TokenLists, fail \in FailsOf("reload") : RouterReload(names, fail)
    \/ \E names \in TokenLists, fail \in FailsOf("graceful") : RouterGraceful(names, fail)
    \/ \E names \in TokenLists, fail \in FailsOf("status") : RouterStatus(names, fail)
    \/ \E names \in TokenLists, fail \in FailsOf("shutdown") : RouterShutdown(names, fail)
    \/ \E names \in TokenLists, fail \in FailsOf("terminate") : RouterTerminate(names, fail)
    \/ \E names \in TokenLists, args \in PmArgs, fail \in FailsOf("pm") :
            RouterPm(names, args, fail)

NextRouterUpdate ==
    \E names \in TokenLists, force \in BOOLEAN, fail \in FailsOf("update"), order \in Orders :
        RouterUpdate(names, force, fail, order)

NextSystemdUpdate ==
    \E configs \in ConfigLists, force \in BOOLEAN, clean \in BOOLEAN,
       fail \in FailsOf("update"), order \in Orders :
        SystemdUpdate(configs, force, clean, fail, order)

NextExec == \E names \in TokenLists : RouterExec(names)

NextSystemd ==
    \/ \E configs \in ConfigLists, service_names \in ServiceNameLists,
          fail \in BackendFailsOf("follow") : SystemdFollow(configs, service_names, fail)
    \/ \E configs \in ConfigLists, service_names \in ServiceNameLists,
          fail \in BackendFailsOf("start") : SystemdStart(configs, service_names, fail)
    \/ \E configs \in ConfigLists, service_names \in ServiceNameLists,
          fail \in BackendFailsOf("stop") : SystemdStop(configs, service_names, fail)
    \/ \E configs \in ConfigLists, service_names \in ServiceNameLists,
          fail \in BackendFailsOf("restart") : SystemdRestart(configs, service_names, fail)
    \/ \E configs \in ConfigLists, service_names \in ServiceNameLists,
          fail \in BackendFailsOf("graceful") : SystemdGraceful(configs, service_names, fail)
    \/ \E configs \in ConfigLists, service_names \in ServiceNameLists,
          fail \in BackendFailsOf("status") : SystemdStatus(configs, service_names, fail)

\* any service of any registered config, with any replication count
NextSystemdService ==
    \E i \in 1..Len(registry), n \in 1..MaxCount :
        \E j \in 1..Len(registry[i].services) :
            NewSystemdService(registry[i], [registry[i].services[j] EXCEPT !.count = n])

\* any service of any registered config, in either command style, opting in to the
\* virtualenv or not
NextResolve ==
    \E resolver \in Resolvers, i \in 1..Len(registry), style \in Styles, opt \in BOOLEAN,
       pm_format_vars \in PmFormatVars, shown \in ShownEnvironments,
       times \in 1..MaxResolve, fail \in FailsOf("resolve") :
        \E j \in 1..Len(registry[i].services) :
            ResolveFormatVars(resolver,
                              [registry[i] EXCEPT !.service_command_style = style],
                              [registry[i].services[j] EXCEPT !.add_virtualenv_to_path = opt],
                              pm_format_vars, shown, times, fail)

\* any service of any registered config; the program name is the composite key of
\* _service_program_name, or the service name as ProcessExecutor.exec passes it (232)
NextRoundTrip ==
    \E i \in 1..Len(registry) : \E j \in 1..Len(registry[i].services) :
        \E program_name \in {_service_program_name(registry[i].instance_name,
                                                   registry[i].services[j]),
                              <<registry[i].services[j].service_name>>} :
            ExecSynthesized(registry[i], registry[i].services[j], program_name)

NextContext ==
    \/ \E names \in TokenLists : ContextExec(names)
    \/ \E names \in TokenLists, fail \in FailsOf("start") : ContextStart(names, fail)
    \/ \E names \in TokenLists, fail \in FailsOf("status") : ContextStatus(names, fail)

Next ==
    \/ NextRoute
    \/ NextContext
    \/ NextRoundTrip
    \/ NextRouterUpdate
    \/ NextSystemdUpdate
    \/ NextExec
    \/ NextResolve
    \/ NextSystemd
    \/ NextSystemdService
    \/ Return
    \/ NewProcess

\* one registered systemd instance, then every operation
Init ==
    InitWith({r \in BoundTo(WithVenv(Registries), "systemd") : Len(r) = 1},
             {<<"supervisor", "systemd">>}, DefaultEnviron, Disks, BOOLEAN, {TRUE})

Spec == Init /\ [][Next]_vars

\* routing: registries of one or two instances bound to either backend, in both registry
\* orders, the instances of a registry all with or all without services
RouterRegistries ==
    {r \in WithVenv(Registries) :
        \A i, j \in 1..Len(r) : (r[i].services = <<>>) <=> (r[j].services = <<>>)}

\* ... an empty unit directory
InitRouter ==
    InitWith(RouterRegistries, {<<"systemd", "supervisor">>}, DefaultEnviron, {EmptyDict},
             {TRUE}, {TRUE})

NextRouter ==
    \/ NextRoute
    \/ NextRouterUpdate
    \/ Return
    \/ NewProcess

SpecRouter == InitRouter /\ [][NextRouter]_vars

\* update through the router (route to all): both dictionary orders of the backends
InitRouterUpdate ==
    InitWith(RouterRegistries, Perms(PMNames), DefaultEnviron, {EmptyDict}, BOOLEAN, {TRUE})

NextRouterUpdateOnly ==
    \/ NextRouterUpdate
    \/ Return
    \/ NewProcess

SpecRouterUpdate == InitRouterUpdate /\ [][NextRouterUpdateOnly]_vars

\* update on the systemd backend: the registries bound to it, every unit directory
UpdateRegistries ==
    {r \in BoundTo(Registries, "systemd") :
        Len(r) = 1 \/ (r[1].instance_name = "main" /\ r[1].virtualenv # <<>>)}

UpdateEnvirons ==
    {("PATH" :> <<"/usr/bin">>), ("PATH" :> <<"/usr/bin">>) @@ ("VIRTUAL_ENV" :> <<"/env">>)}

InitUpdate ==
    InitWith(UpdateRegistries, {<<"supervisor", "systemd">>}, UpdateEnvirons, Disks, BOOLEAN,
             {TRUE})

NextUpdate ==
    \/ NextSystemdUpdate
    \/ Return
    \/ NewProcess

SpecUpdate == InitUpdate /\ [][NextUpdate]_vars

\* exec: every registry, every inherited environment
InitExec ==
    InitWith(Registries, {<<"supervisor", "systemd">>}, OsEnvirons, {EmptyDict}, {FALSE},
             {TRUE})

NextExecOnly ==
    \/ NextExec
    \/ Return

SpecExec == InitExec /\ [][NextExecOnly]_vars

\* the operations of the systemd backend: an instance with a plain, a rolling and a
\* replicated service, alone or with a second instance of another config type
BackendMain == Config("main", "galaxy", "systemd", <<Gunicorn, Celery, Workflow>>, <<"/venv">>)

BackendReports == Config("reports", "reports", "systemd", <<Reports>>, <<"/venv">>)

BackendRegistries == {<<BackendMain>>, <<BackendMain, BackendReports>>,
                      <<BackendReports, BackendMain>>}

InitBackend ==
    InitWith(BackendRegistries, {<<"supervisor", "systemd">>}, DefaultEnviron, {EmptyDict},
             {TRUE}, BOOLEAN)

NextBackend ==
    \/ NextSystemd
    \/ NextSystemdService
    \/ Return

SpecBackend == InitBackend /\ [][NextBackend]_vars

\* format variables: the systemd registries whose instances have services, with and
\* without a configured virtualenv; an inherited PATH without and with the virtualenv's
\* bin directory (the virtualenv is active), and no inherited PATH
ResolveRegistries ==
    {r \in BoundTo(Registries, "systemd") : \A i \in 1..Len(r) : r[i].services # <<>>}

ResolveEnvirons ==
    {("PATH" :> <<"/usr/bin">>),
     ("PATH" :> <<"/venv", "/bin", ":", "/usr/bin">>),
     ("HOME" :> <<"/root">>)}

InitResolve ==
    InitWith(ResolveRegistries, {<<"supervisor", "systemd">>}, ResolveEnvirons, {EmptyDict},
             {TRUE}, {TRUE})

NextResolveOnly ==
    \/ NextResolve
    \/ Return

SpecResolve == InitResolve /\ [][NextResolveOnly]_vars

\* update through the router when two instances of one config type are bound to systemd
\* and the unit directory holds what an earlier installation left there
MainBare == Config("main", "galaxy", "systemd", <<>>, <<"/venv">>)

Second == Config("second", "galaxy", "systemd", <<Gunicorn>>, <<"/venv">>)

StaleRegistries == {<<MainBare>>, <<MainBare, Second>>, <<Second, MainBare>>}

\* the unit of the gunicorn service, named with and without the instance name, and a unit
\* no config intends
InstalledFiles ==
    {<<"galaxy", "-", "second", "-", "gunicorn", ".service">>,
     <<"galaxy", "-", "gunicorn", ".service">>,
     <<"galaxy", "-", "old", ".service">>}

InstalledDisks == {[f \in S |-> <<"old">>] : S \in SUBSET InstalledFiles}

InitStale ==
    InitWith(StaleRegistries, Perms(PMNames), DefaultEnviron, InstalledDisks, {TRUE}, {TRUE})

SpecStale == InitStale /\ [][NextRouterUpdateOnly]_vars

\* the rendered exec command run on every registry
InitRoundTrip ==
    InitWith(Registries, {<<"supervisor", "systemd">>}, DefaultEnviron, {EmptyDict}, {FALSE},
             BOOLEAN)

NextRoundTripOnly ==
    \/ NextRoundTrip
    \/ Return

SpecRoundTrip == InitRoundTrip /\ [][NextRoundTripOnly]_vars

\* the context around exec, start and status, on the registries of the routing
InitContext ==
    InitWith(RouterRegistries, Perms(PMNames), DefaultEnviron, {EmptyDict}, {TRUE}, {TRUE})

NextContextOnly ==
    \/ NextContext
    \/ Return

SpecContext == InitContext /\ [][NextContextOnly]_vars

(***************************************************************************)
(* Claims: notions of the specification the formulas are stated with       *)
(***************************************************************************)
LifecycleOps ==
    {"start", "stop", "restart", "reload", "graceful", "status", "shutdown", "terminate",
     "follow", "pm"}

Returned(names) == pc = "returned" /\ op.name \in names

\* the tokens of the last operation that are registered instance names
InstanceTokens ==
    SelectSeq(op.names, LAMBDA t : \E i \in 1..Len(registry) : registry[i].instance_name = t)

\* the configs the last operation is about: the named instances, every instance if none
\* is named
SelectedConfigs ==
    IF InstanceTokens = <<>> THEN registry
    ELSE SelectSeq(registry, LAMBDA c : c.instance_name \in Range(InstanceTokens))

\* the instance names of the matching configs of backend B, in registry order
Matching(B) ==
    LET mine == SelectSeq(SelectedConfigs, LAMBDA c : c.process_manager = B)
    IN [i \in 1..Len(mine) |-> mine[i].instance_name]

CallsOf(B) == SelectSeq(calls, LAMBDA c : c.pm = B)

\* no control-utility call of the last operation exited non-zero
NoExternalFailure == \A i \in 1..Len(log) : IsExternal(log[i]) => log[i].rc = 0

(***************************************************************************)
(* C1                                                                      *)
(***************************************************************************)
\* C1 as stated, for the systemd backend: after a routed lifecycle operation that ended
\* without error, the backend was invoked once with exactly its matching configs if it
\* owns matching configs, and was not invoked if it owns none.
C1_Original ==
    (Returned(LifecycleOps) /\ err = "none") =>
        \A B \in {"systemd"} :
            IF Matching(B) = <<>> THEN CallsOf(B) = <<>>
            ELSE /\ Len(CallsOf(B)) = 1
                 /\ CallsOf(B)[1].func = op.name
                 /\ "configs" \in DOMAIN CallsOf(B)[1].kwargs
                 /\ CallsOf(B)[1].kwargs["configs"] = Matching(B)

\* C1, amended: in a routed lifecycle operation every invoked method is the same-named
\* method of a backend that owns at least one matching config, no backend is invoked
\* twice, a method that declares a configs parameter receives exactly its backend's
\* matching configs and a method that declares none (shutdown, terminate, pm) receives no
\* configs; when the operation ends without error every backend that owns a matching
\* config has been invoked.
C1_RouteToOwners ==
    Returned(LifecycleOps) =>
        /\ \A i \in 1..Len(calls) :
              /\ calls[i].func = op.name
              /\ Matching(calls[i].pm) # <<>>
              /\ IF "configs" \in routed_func_params(calls[i].pm, calls[i].func)
                 THEN /\ "configs" \in DOMAIN calls[i].kwargs
                      /\ calls[i].kwargs["configs"] = Matching(calls[i].pm)
                 ELSE "configs" \notin DOMAIN calls[i].kwargs
        /\ \A B \in PMNames : Len(CallsOf(B)) <= 1
        /\ err = "none" => \A B \in PMNames : Matching(B) # <<>> => CallsOf(B) # <<>>

\* a start naming one of two instances bound to different backends: one backend is
\* invoked with that instance, the other is skipped
C1_Witness ==
    /\ Returned({"start"})
    /\ err = "none"
    /\ Len(registry) = 2
    /\ registry[1].process_manager # registry[2].process_manager
    /\ op.names = <<"main">>
    /\ Len(calls) = 1
    /\ calls[1].kwargs["configs"] = <<"main">>

(***************************************************************************)
(* C2                                                                      *)
(***************************************************************************)
\* C2 as stated, where the systemd backend is the first of the loaded backends: a
\* dispatch of update whose tokens are classified without fatal error and whose
\* control-utility calls all succeed invokes the update method of every loaded backend
\* exactly once, with the backend's matching configs (an empty list for a backend that
\* owns none).
C2_Original ==
    (Returned({"update"}) /\ err # "exception" /\ NoExternalFailure
        /\ Head(process_managers) = "systemd") =>
        \A B \in Range(process_managers) :
            /\ Len(CallsOf(B)) = 1
            /\ CallsOf(B)[1].func = "update"
            /\ CallsOf(B)[1].kwargs["configs"] = Matching(B)

(***************************************************************************)
(* C7                                                                      *)
(***************************************************************************)
RegisteredInstanceNames == get_registered_instance_names(registry)

KnownServiceNames == get_configured_service_names(registry) \cup VALID_SERVICE_NAMES

\* the last operation classified its tokens (it did not fail with "no known names")
Classified ==
    /\ pc = "returned"
    /\ op.name \in LifecycleOps \cup {"update"}
    /\ op.names # <<>>
    /\ message # <<"No provided names are known instance or service names">>

\* C7 as stated: a token that is a registered instance name is never in the service-name
\* result, a token that is a configured or reserved service name is never in the
\* instance-name result, and a token in neither set is in neither result and is warned of.
C7_Original ==
    Classified =>
        \A t \in Range(op.names) :
            /\ t \in RegisteredInstanceNames => t \notin Range(classified.service_names)
            /\ t \in KnownServiceNames => t \notin Range(classified.instance_names)
            /\ t \notin RegisteredInstanceNames \cup KnownServiceNames =>
                  /\ t \notin Range(classified.instance_names)
                  /\ t \notin Range(classified.service_names)
                  /\ t \in Range(warnings)

\* C7, amended: instance names take precedence.  Every token is in at most one result; a
\* token that is a registered instance name is in the instance-name result and never in
\* the service-name result, also when it is a service name as well; a token that is a
\* configured or reserved service name and no registered instance name is in the
\* service-name result and never in the instance-name result; a token in neither set is in
\* neither result and is warned of.
C7_InstanceNamesFirst ==
    Classified =>
        \A t \in Range(op.names) :
            /\ ~(t \in Range(classified.instance_names) /\ t \in Range(classified.service_names))
            /\ t \in RegisteredInstanceNames =>
                  /\ t \in Range(classified.instance_names)
                  /\ t \notin Range(classified.service_names)
            /\ t \in KnownServiceNames \ RegisteredInstanceNames =>
                  /\ t \in Range(classified.service_names)
                  /\ t \notin Range(classified.instance_names)
            /\ t \notin RegisteredInstanceNames \cup KnownServiceNames =>
                  /\ t \notin Range(classified.instance_names)
                  /\ t \notin Range(classified.service_names)
                  /\ t \in Range(warnings)

\* the token "reports" is the name of a registered instance and a reserved service name,
\* and it was classified together with a service name
C7_Witness ==
    /\ Classified
    /\ op.names = <<"reports", "gunicorn">>
    /\ "reports" \in RegisteredInstanceNames \cap KnownServiceNames
    /\ classified = [instance_names |-> <<"reports">>, service_names |-> <<"gunicorn">>]

(***************************************************************************)
(* C8                                                                      *)
(***************************************************************************)
KnownTokens == SelectSeq(op.names, LAMBDA t : t \in RegisteredInstanceNames \cup KnownServiceNames)

UnknownTokens ==
    SelectSeq(op.names, LAMBDA t : t \notin RegisteredInstanceNames \cup KnownServiceNames)

\* C8: a routed operation called with a non-empty token list of which none is known fails
\* with the fatal "no provided names are known" error, invokes no backend method and has no
\* external effect; one called with at least one known token does not fail that way, warns
\* of exactly its unknown tokens, and dispatches: a backend method is invoked, and every
\* invoked method that takes the service-name filter receives the known service tokens, and
\* one that takes configs receives configs of the selected instances only.
C8_UnknownNamesGate ==
    (Returned(LifecycleOps \cup {"update"}) /\ op.names # <<>>) =>
        IF KnownTokens = <<>>
        THEN /\ err = "exception"
             /\ message = <<"No provided names are known instance or service names">>
             /\ calls = <<>>
             /\ log = <<>>
             /\ files = files_before
        ELSE /\ message # <<"No provided names are known instance or service names">>
             /\ warnings = UnknownTokens
             /\ calls # <<>>
             /\ \A i \in 1..Len(calls) :
                   /\ "service_names" \in DOMAIN calls[i].kwargs =>
                         calls[i].kwargs["service_names"] = classified.service_names
                   /\ "configs" \in DOMAIN calls[i].kwargs =>
                         calls[i].kwargs["configs"] = Matching(calls[i].pm)
             /\ Range(classified.instance_names) \cup Range(classified.service_names)
                    = Range(KnownTokens)

\* a stop given one known and one unknown token: one warning, and the backend is invoked
C8_Witness ==
    /\ Returned({"stop"})
    /\ op.names = <<"bogus", "main">>
    /\ warnings = <<"bogus">>
    /\ Len(calls) = 1
    /\ err = "none"

(***************************************************************************)
(* C3 - C6: update on the systemd backend                                  *)
(***************************************************************************)
LogPaths(kind) == {log[i].path : i \in {j \in 1..Len(log) : log[j].kind = kind}}

Unlinked == LogPaths("unlink")

Written == LogPaths("write")

SystemctlCalls(verb) ==
    SelectSeq(log, LAMBDA ev : ev.kind = "systemctl" /\ ev.verb = verb)

Disabled == UNION {Range(ev.units) : ev \in Range(SystemctlCalls("disable"))}

\* the configs the last update was given
OpConfigs == SelectSeq(registry, LAMBDA c : c.instance_name \in Range(op.configs))

\* the intended artifacts I: the service unit files and the target file of those configs
Intended ==
    UNION {{unit_file_name(c, c.services[j], use_instance_name) : j \in 1..Len(c.services)}
               \cup {__target_unit_name(c, use_instance_name)} : c \in Range(OpConfigs)}

\* the naming convention of managed artifacts for config type ct
IsManaged(f, ct) ==
    \/ Len(f) >= 3 /\ f[1] = ct /\ f[2] = "-" /\ f[Len(f)] \in {".service", ".target"}
    \/ f = <<ct, ".target">>

\* the present managed artifacts P when the update began
ManagedPresent ==
    {f \in DOMAIN files_before : \E c \in Range(OpConfigs) : IsManaged(f, c.config_type)}

\* the update ended, and not by a failed control-utility call or a user error
UpdateRan ==
    /\ Returned({"systemd.update"})
    /\ op.configs # <<>>
    /\ err \notin {"CalledProcessError", "exception"}

\* C3 as stated: a normal update (clean = false, force = false) disables and deletes
\* exactly the files of P that are not in I, and no file of I.
C3_Original ==
    (UpdateRan /\ ~op.clean /\ ~op.force) =>
        /\ Unlinked = ManagedPresent \ Intended
        /\ Disabled = ManagedPresent \ Intended
        /\ Unlinked \cap Intended = {}

\* C4 as stated (with force = false): update(clean = true) deletes exactly the files of P
\* that are in I, writes no artifact and enables no target.
C4_Original ==
    (UpdateRan /\ op.clean /\ ~op.force) =>
        /\ Unlinked = ManagedPresent \cap Intended
        /\ Written = {}
        /\ SystemctlCalls("enable") = <<>>

\* C5 as stated: an update call that is not cut short by another error ends without
\* error; it invokes daemon-reload exactly once, as its last control-utility call, if it
\* added, updated or removed an artifact, and does not invoke it otherwise.
C5_Original ==
    (Returned({"systemd.update"}) /\ NoExternalFailure /\ err \in {"none", "AttributeError"}) =>
        /\ err = "none"
        /\ IF Written \cup Unlinked # {}
           THEN /\ Len(SystemctlCalls("daemon-reload")) = 1
                /\ log[Len(log)].kind = "systemctl"
                /\ log[Len(log)].verb = "daemon-reload"
           ELSE SystemctlCalls("daemon-reload") = <<>>

\* C6 as stated: in a regeneration (clean = false) a file is written only if it was
\* missing or its content differed, and the unit file of every service of the given
\* configs that was missing is written.
C6_Original ==
    (UpdateRan /\ ~op.clean /\ ~op.force) =>
        /\ \A f \in Written : f \notin DOMAIN files_before \/ files_before[f] # files[f]
        /\ \A c \in Range(OpConfigs) : \A j \in 1..Len(c.services) :
              unit_file_name(c, c.services[j], use_instance_name) \notin DOMAIN files_before
                  => /\ unit_file_name(c, c.services[j], use_instance_name) \in Written
                     /\ unit_file_name(c, c.services[j], use_instance_name) \in DOMAIN files

(***************************************************************************)
(* C9, C10: exec                                                           *)
(***************************************************************************)
\* the tokens of the last operation that are service names and no instance names
ServiceTokens ==
    SelectSeq(op.names, LAMBDA t : t \in KnownServiceNames \ RegisteredInstanceNames)

\* the tokens resolve to exactly one instance
OneInstance ==
    \/ Len(InstanceTokens) = 1
    \/ Len(InstanceTokens) = 0 /\ Len(registry) = 1

TheConfig ==
    IF InstanceTokens = <<>> THEN registry[1]
    ELSE CHOOSE c \in Range(registry) : c.instance_name = InstanceTokens[1]

ConfiguredServices(c) == {c.services[j].service_name : j \in 1..Len(c.services)}

\* ... and to exactly one service name, configured in that instance
OneService ==
    /\ Len(ServiceTokens) = 1
    /\ ServiceTokens[1] \in ConfiguredServices(TheConfig)

ExecRan == op.name = "exec" /\ pc \in {"returned", "replaced"}

\* C9: exec replaces the process only when the tokens resolve to exactly one instance
\* (none given only in a single-instance registry) and exactly one service name configured
\* in it, and then with that instance and that service; in every other case it fails with
\* a fatal error before any effect, and the error about the service names the configured
\* services of the instance.
C9_ExecCardinality ==
    ExecRan =>
        /\ pc = "replaced" =>
              /\ OneInstance /\ OneService
              /\ log[Len(log)].kind = "execvpe"
              /\ log[Len(log)].instance = TheConfig.instance_name
              /\ log[Len(log)].service = ServiceTokens[1]
        /\ ~(OneInstance /\ OneService) =>
              /\ pc = "returned"
              /\ err = "exception"
              /\ log = <<>>
        /\ (OneInstance /\ ~OneService /\ (op.names = <<>> \/ KnownTokens # <<>>)) =>
              /\ Len(message) = 2
              /\ message[2] = [j \in 1..Len(TheConfig.services) |->
                                  TheConfig.services[j].service_name]

\* in a registry of two instances, exec of a service of a named instance replaced the
\* process
C9_Witness ==
    /\ ExecRan
    /\ pc = "replaced"
    /\ Len(registry) = 2
    /\ op.names = <<"gunicorn", "main">>

\* C10 as stated: in the environment handed to the process replacement, a key of the
\* resolved service environment has the resolved value, also when the inherited
\* environment has the key, and a key of the inherited environment only has the inherited
\* value.
C10_Original ==
    (ExecRan /\ pc = "replaced") =>
        LET ev == log[Len(log)]
        IN /\ DOMAIN ev.env = (DOMAIN ev.resolved) \cup (DOMAIN os_environ)
           /\ \A k \in DOMAIN ev.env :
                 ev.env[k] = IF k \in DOMAIN ev.resolved THEN ev.resolved[k] ELSE os_environ[k]

(***************************************************************************)
(* C11, C13: format variables                                              *)
(***************************************************************************)
\* what the last call made on one object was given
Subject == op.subject[1]

ResolveRan == Returned({"resolve"})

FormatVars == SelectSeq(log, LAMBDA ev : ev.kind = "format_vars")

\* the virtualenv bin prefix in effect: the backend's override, else the configured one
VirtualenvBin ==
    IF "{virtualenv_bin}" \in DOMAIN Subject.pm_format_vars
    THEN Subject.pm_format_vars["{virtualenv_bin}"]
    ELSE IF Subject.config.virtualenv # <<>> THEN Subject.config.virtualenv \o <<"/bin", "/">>
    ELSE <<>>

\* direct style, a virtualenv in effect and the service opting in to it
PrependsVirtualenv ==
    /\ Subject.config.service_command_style = "direct"
    /\ VirtualenvBin # <<>>
    /\ Subject.service.add_virtualenv_to_path

\* the environment of the service before the virtualenv is added
ServiceEnvironment == _service_environment(Subject.service, Subject.config.attribs_environment)

\* nothing but control-utility calls and returned format vars: no file written or
\* deleted, no backend attribute assigned
NoStateMutation ==
    /\ files = files_before
    /\ service_changes = "unset"
    /\ \A i \in 1..Len(log) : log[i].kind \in {"systemctl", "journalctl", "format_vars"}

\* C11 as stated: resolving format vars makes no control-utility call and no other I/O and
\* changes no process-manager state, also with a virtualenv and no PATH in the service
\* environment.
C11_Original ==
    ResolveRan => (NoStateMutation /\ ExternalCalls(log) = 0)

\* C11, amended: resolving format vars changes no process-manager state and writes
\* nothing; it makes no control-utility call except that the systemd backend, in direct
\* style with a virtualenv in effect and the service opting in, queries the control
\* utility's show-environment once per resolution for the default PATH (whether or not
\* the service environment has a PATH of its own).
C11_PureButDefaultPath ==
    ResolveRan =>
        /\ NoStateMutation
        /\ \A i \in 1..Len(log) :
              IsExternal(log[i]) =>
                  (log[i].kind = "systemctl" /\ log[i].verb = "show-environment"
                   /\ log[i].units = <<>>)
        /\ ExternalCalls(log) =
              IF Subject.resolver = "SystemdProcessManager" /\ PrependsVirtualenv
              THEN Len(FormatVars) + (IF err = "none" THEN 0 ELSE 1)
              ELSE 0
        /\ err = "none" => Len(FormatVars) = Subject.times

\* the systemd backend resolved, twice, a service in direct style with a virtualenv and no
\* PATH of its own
C11_Witness ==
    /\ ResolveRan
    /\ err = "none"
    /\ Subject.resolver = "SystemdProcessManager"
    /\ PrependsVirtualenv
    /\ "PATH" \notin DOMAIN ServiceEnvironment
    /\ Subject.times = 2
    /\ Len(SystemctlCalls("show-environment")) = 2

\* the PATH value the resolution found: the service environment's own, else the default
\* path of the resolver
PreExistingPath ==
    IF "PATH" \in DOMAIN ServiceEnvironment THEN ServiceEnvironment["PATH"]
    ELSE IF Subject.resolver = "SystemdProcessManager" THEN Subject.shown["PATH"]
    ELSE os_environ["PATH"]

\* the PATH value in resolved format vars (the systemd backend holds it in the line
\* Environment=PATH=...)
ResolvedPath(ev) ==
    IF Subject.resolver = "SystemdProcessManager"
    THEN SubSeq(ev.environment["PATH"], 4, Len(ev.environment["PATH"]))
    ELSE ev.environment["PATH"]

RECURSIVE PathEntries(_)
\* the directories of a PATH value, split at the colons
PathEntries(p) ==
    IF \A i \in 1..Len(p) : p[i] # ":" THEN <<p>>
    ELSE LET k == CHOOSE i \in 1..Len(p) : p[i] = ":" /\ \A j \in 1..(i - 1) : p[j] # ":"
         IN <<SubSeq(p, 1, k - 1)>> \o PathEntries(SubSeq(p, k + 1, Len(p)))

\* a directory, written with or without a trailing separator
Directory(e) == IF e # <<>> /\ e[Len(e)] = "/" THEN SubSeq(e, 1, Len(e) - 1) ELSE e

\* how often directory d is listed in PATH value p
Occurrences(d, p) ==
    Cardinality({i \in 1..Len(PathEntries(p)) : Directory(PathEntries(p)[i]) = Directory(d)})

Names == log[1]

\* C12: for a service with count 1 the unit file name is <prefix>.service and the only
\* unit identifier is that name; for a service with count n > 1 the unit file name is
\* <prefix>@.service and there are exactly n unit identifiers, <prefix>@i.service for
\* i = 0..n-1, each index once.
C12_UnitNaming ==
    Returned({"SystemdService"}) =>
        LET n == Subject.service.count
            prefix == Names.unit_prefix
        IN IF n = 1
           THEN /\ Names.unit_file_name = prefix \o <<".service">>
                /\ Names.unit_names = << prefix \o <<".service">> >>
           ELSE /\ Names.unit_file_name = prefix \o <<"@", ".service">>
                /\ Len(Names.unit_names) = n
                /\ \A i \in 0..(n - 1) :
                      Cardinality({k \in 1..n :
                          Names.unit_names[k] = prefix \o <<"@", ToString(i), ".service">>}) = 1

\* the names of a service with three replicas were read
C12_Witness ==
    /\ Returned({"SystemdService"})
    /\ Subject.service.count = 3
    /\ Len(Names.unit_names) = 3

(***************************************************************************)
(* C14: dispatch aborts on the first error                                 *)
(***************************************************************************)
\* the backends that own a matching config, in the order of their first matching config
Owners ==
    IF SelectedConfigs = <<>> THEN <<>>
    ELSE LET first == SelectedConfigs[1].process_manager
             others == {SelectedConfigs[i].process_manager : i \in 1..Len(SelectedConfigs)}
                           \ {first}
         IN <<first>> \o (IF others = {} THEN <<>> ELSE <<CHOOSE o \in others : TRUE>>)

\* the order in which the last operation goes through the backends
IterationOrder == IF op.name = "update" THEN process_managers ELSE Owners

\* the backends whose method was invoked, in the order of the invocations
CalledPms == [i \in 1..Len(calls) |-> calls[i].pm]

IsPrefix(a, b) == Len(a) <= Len(b) /\ a = SubSeq(b, 1, Len(a))

\* C14: a routed operation invokes the backends one after another in iteration order;
\* when the method of a backend raises, no backend later in the order is invoked, the
\* failed control-utility call is not repeated and the error is what the caller gets.
C14_AbortOnFirstError ==
    (Returned(LifecycleOps \cup {"update"}) /\ err # "exception") =>
        /\ IsPrefix(CalledPms, IterationOrder)
        /\ err = "none" => CalledPms = IterationOrder
        /\ err \in {"CalledProcessError", "AttributeError"} =>
              /\ calls # <<>>
              /\ calls[Len(calls)].pm = "systemd"
        /\ err = "CalledProcessError" =>
              /\ log # <<>>
              /\ IsExternal(log[Len(log)])
              /\ log[Len(log)].rc # 0
              /\ \A i \in 1..(Len(log) - 1) : IsExternal(log[i]) => log[i].rc = 0

\* start went to the systemd backend first, its control-utility call failed and the
\* supervisor backend, which owns a matching config too, was not invoked
C14_Witness ==
    /\ Returned({"start"})
    /\ err = "CalledProcessError"
    /\ IterationOrder = <<"systemd", "supervisor">>
    /\ CalledPms = <<"systemd">>

(***************************************************************************)
(* C15: exec fails on a user input error before any side effect            *)
(***************************************************************************)
\* a step in which exec ends with a fatal user input error (gravity.io.exception)
ExecFailsOnInput == pc = "idle" /\ op'.name = "exec" /\ err' = "exception"

\* C15: when exec fails with a user input error (no known token, wrong number of
\* instances or of services, service not configured), the command style of every config
\* is what it was, the working directory has not been changed and the process-replacement
\* call has not been made.
C15_NoSideEffectOnInputError ==
    [][ExecFailsOnInput =>
            /\ registry' = registry
            /\ pc' = "returned"
            /\ \A i \in 1..Len(log') : log'[i].kind \notin {"chdir", "execvpe"}
            /\ files' = files]_vars

\* exec of a service that the named instance does not configure failed
C15_Witness ==
    /\ ExecRan
    /\ pc = "returned"
    /\ err = "exception"
    /\ OneInstance
    /\ Len(ServiceTokens) = 1
    /\ ~OneService
    /\ \A i \in 1..Len(registry) : registry[i].service_command_style = "gravity"

(***************************************************************************)
(* C16: keyword arguments per backend                                      *)
(***************************************************************************)
\* the invoked method got keyword k exactly if its own signature has the parameter
PassedIfAccepted(call, k) ==
    (k \in DOMAIN call.kwargs) <=> (k \in routed_func_params(call.pm, call.func))

\* C16 as stated: in a routed dispatch every backend that owns a matching config has its
\* method called, with the service-name filter exactly if the method's own signature
\* accepts it and with the configs exactly if it accepts them, whatever a backend invoked
\* earlier in the same dispatch accepted.
C16_Original ==
    (Returned(LifecycleOps) /\ err # "exception" /\ NoExternalFailure) =>
        /\ CalledPms = Owners
        /\ \A i \in 1..Len(calls) :
              /\ PassedIfAccepted(calls[i], "service_names")
              /\ PassedIfAccepted(calls[i], "configs")

(***************************************************************************)
(* C17: the target of a config                                             *)
(***************************************************************************)
\* the target file of config c
TargetOf(c) ==
    <<c.config_type>> \o (IF use_instance_name THEN <<"-", c.instance_name>> ELSE <<>>)
        \o <<".target">>

\* every expanded unit identifier of every service of config c
AllUnitsOf(c) ==
    UNION {Range(unit_names(c, c.services[j], use_instance_name)) : j \in 1..Len(c.services)}

\* the control utility was told to enable file t
Enabled(t) == \E ev \in Range(SystemctlCalls("enable")) : t \in Range(ev.units)

\* C17 as stated: after an update in regeneration mode, a target file the update wrote
\* lists as wants every unit identifier of every service of its config, and the target is
\* enabled exactly if the update added or rewrote its file.
C17_Original ==
    (UpdateRan /\ ~op.clean /\ NoExternalFailure) =>
        \A c \in Range(OpConfigs) :
            /\ TargetOf(c) \in Written =>
                  (/\ TargetOf(c) \in DOMAIN files
                   /\ Range(files[TargetOf(c)][3]) = AllUnitsOf(c))
            /\ Enabled(TargetOf(c)) <=> (TargetOf(c) \in Written)

(***************************************************************************)
(* C18, C19, C20: the units the backend's operations name                  *)
(***************************************************************************)
\* the unit identifiers of the services of the given configs whose name is in the filter
FilteredUnits ==
    UNION {UNION {Range(unit_names(c, c.services[j], use_instance_name)) :
                      j \in {k \in 1..Len(c.services) :
                                c.services[k].service_name \in Range(op.names)}} :
               c \in Range(OpConfigs)}

\* the unit identifiers of all services of the given configs
AllUnits == UNION {AllUnitsOf(c) : c \in Range(OpConfigs)}

Targets == {TargetOf(c) : c \in Range(OpConfigs)}

IsTarget(u) == u[Len(u)] = ".target"

\* the arguments are exactly the units U, each once
NamesExactly(units, U) == Range(units) = U /\ Len(units) = Cardinality(U)

VerbOf(name) ==
    CASE name = "systemd.start" -> "start"
      [] name = "systemd.stop" -> "stop"
      [] name = "systemd.restart" -> "restart"

\* C18: start, stop and restart issue exactly one control-utility call, with their own
\* verb; without a service-name filter its units are the targets of the given configs,
\* one per config in their order, and no service unit; with a filter they are the unit
\* identifiers of the services of the given configs whose name is in the filter, each
\* once, and no target.
C18_VerbUnits ==
    Returned({"systemd.start", "systemd.stop", "systemd.restart"}) =>
        /\ Len(log) = 1
        /\ log[1].kind = "systemctl"
        /\ log[1].verb = VerbOf(op.name)
        /\ IF op.names = <<>>
           THEN log[1].units = [i \in 1..Len(OpConfigs) |-> TargetOf(OpConfigs[i])]
           ELSE /\ NamesExactly(log[1].units, FilteredUnits)
                /\ \A u \in Range(log[1].units) : ~IsTarget(u)

\* restart with a filter naming the replicated celery service named its three units
C18_Witness ==
    /\ Returned({"systemd.restart"})
    /\ op.names = <<"celery">>
    /\ op.configs = <<"main">>
    /\ Len(log[1].units) = 3

\* C19: follow makes one log-utility call whose units are service units only: the units
\* of all services of the given configs without a filter, those of the filtered services
\* with one, never a target; status without a filter queries the target of every given
\* config together with all of its service units.
C19_FollowServicesOnly ==
    /\ Returned({"systemd.follow"}) =>
          /\ Len(log) = 1
          /\ log[1].kind = "journalctl"
          /\ NamesExactly(log[1].units, IF op.names = <<>> THEN AllUnits ELSE FilteredUnits)
          /\ \A u \in Range(log[1].units) : ~IsTarget(u)
    /\ (Returned({"systemd.status"}) /\ op.names = <<>>) =>
          /\ log # <<>>
          /\ log[1].kind = "systemctl"
          /\ log[1].verb = "status"
          /\ NamesExactly(log[1].units, Targets \cup AllUnits)

\* follow without a filter on two configs named the eight service units and no target
C19_Witness ==
    /\ Returned({"systemd.follow"})
    /\ op.names = <<>>
    /\ Len(op.configs) = 2
    /\ Len(log[1].units) = 8

\* the services graceful handles in config c
GracefulServices(c) ==
    IF op.names = <<>> THEN c.services
    ELSE SelectSeq(c.services, LAMBDA sv : sv.service_name \in Range(op.names))

\* what graceful does for one service with unit identifiers U: the callbacks handed to
\* the rolling restart and one call per unit, or one call for all units
ServiceSteps(gm, U) ==
    IF gm = "ROLLING"
    THEN <<[kind |-> "rolling_restart", units |-> U]>>
             \o [i \in 1..Len(U) |-> [kind |-> "systemctl", units |-> <<U[i]>>]]
    ELSE <<[kind |-> "systemctl", units |-> U]>>

ConfigSteps(c) ==
    Flatten([j \in 1..Len(GracefulServices(c)) |->
                ServiceSteps(GracefulServices(c)[j].graceful_method,
                             unit_names(c, GracefulServices(c)[j], use_instance_name))])

GracefulSteps == Flatten([i \in 1..Len(OpConfigs) |-> ConfigSteps(OpConfigs[i])])

\* what the last operation did, reduced to the units each step names
Steps ==
    [i \in 1..Len(log) |->
        [kind |-> log[i].kind,
         units |-> IF log[i].kind = "rolling_restart" THEN log[i].callbacks
                   ELSE log[i].units]]

\* C20: graceful goes through the selected services one by one; for a ROLLING service it
\* hands the rolling restart one callback per unit identifier and each callback issues
\* reload-or-restart for that one unit, never a call naming several replicas; for any
\* other service it issues exactly one reload-or-restart naming all units of the service.
C20_GracefulPerService ==
    Returned({"systemd.graceful"}) =>
        /\ IsPrefix(Steps, GracefulSteps)
        /\ err = "none" => Steps = GracefulSteps
        /\ \A i \in 1..Len(log) :
              log[i].kind = "systemctl" => log[i].verb = "reload-or-restart"

\* graceful without a filter restarted the rolling celery service unit by unit and the
\* replicated workflow service with one call
C20_Witness ==
    /\ Returned({"systemd.graceful"})
    /\ err = "none"
    /\ op.names = <<>>
    /\ op.configs = <<"main">>
    /\ \E i \in 1..Len(log) : log[i].kind = "rolling_restart" /\ Len(log[i].callbacks) = 3
    /\ \E i \in 1..Len(log) : log[i].kind = "systemctl" /\ Len(log[i].units) = 3

(***************************************************************************)
(* C21: disable before delete, forced removal before regeneration          *)
(***************************************************************************)
IsDisable(ev) == ev.kind = "systemctl" /\ ev.verb = "disable"

\* the disable call of the forced removal (353) carries no option, the one of the
\* reconciliation (271) carries --now
IsForcedDisable(ev) == IsDisable(ev) /\ ev.opts = <<>>

\* the disable call that precedes the deletion at position i of the log
DisabledBefore(i) ==
    {j \in 1..(i - 1) : IsDisable(log[j]) /\ log[j].units = <<log[i].path>> /\ log[j].rc = 0}

\* the deletion at position i of the log belongs to the forced removal
IsForcedUnlink(i) ==
    log[i].kind = "unlink" /\ \E j \in DisabledBefore(i) : IsForcedDisable(log[j])

\* the artifacts of the unit directory that match the globs of the given configs' types
ForcedSet ==
    {f \in DOMAIN files_before : \E c \in Range(OpConfigs) : IsManaged(f, c.config_type)}

\* C21: in update every deletion of an artifact comes after a disable call for that unit
\* that returned without error; a disable call that fails is the last step of the update,
\* its file is still there and the error is what the caller gets; every step of the
\* forced removal comes before the first artifact is written, and by then every artifact
\* matching the globs of the given configs' types has been deleted.
C21_DisableThenDelete ==
    Returned({"systemd.update"}) =>
        /\ \A i \in 1..Len(log) : log[i].kind = "unlink" => DisabledBefore(i) # {}
        /\ \A j \in 1..Len(log) :
              (IsDisable(log[j]) /\ log[j].rc # 0) =>
                  /\ j = Len(log)
                  /\ err = "CalledProcessError"
                  /\ log[j].units[1] \in DOMAIN files
                  /\ \A i \in 1..Len(log) : log[i].kind = "unlink" => log[i].path # log[j].units[1]
        /\ \A w \in 1..Len(log) :
              log[w].kind = "write" =>
                  /\ \A i \in 1..Len(log) :
                        (IsForcedDisable(log[i]) \/ IsForcedUnlink(i)) => i < w
                  /\ op.force =>
                        \A f \in ForcedSet :
                            \E i \in 1..(w - 1) : log[i].kind = "unlink" /\ log[i].path = f

\* a forced update disabled and deleted two artifacts and then wrote the target anew
C21_Witness ==
    /\ Returned({"systemd.update"})
    /\ op.force
    /\ err = "none"
    /\ Cardinality(ForcedSet) = 2
    /\ \E w \in 1..Len(log) : log[w].kind = "write" /\ log[w].path \in ForcedSet
    /\ \E i \in 1..Len(log) : IsForcedUnlink(i)

\* a disable call of the reconciliation failed and its file was kept
C21_WitnessFailedDisable ==
    /\ Returned({"systemd.update"})
    /\ ~op.force
    /\ err = "CalledProcessError"
    /\ IsDisable(log[Len(log)])
    /\ log[Len(log)].opts = <<"--now">>
    /\ log[Len(log)].units[1] \in DOMAIN files

(***************************************************************************)
(* C22: the artifacts the reconciliation lists as present                  *)
(***************************************************************************)
\* C22 as stated: the artifacts of the unit directory that the reconciliation of an
\* update lists as present are exactly the files named <config_type>-*.service,
\* <config_type>-*.target or <config_type>.target for the config types of the configs the
\* update manages.
C22_Original ==
    (Returned({"systemd.update"}) /\ op.configs # <<>>) =>
        present_configs(files_before) = ManagedPresent

(***************************************************************************)
(* C23: non-zero exit codes of the control utility                         *)
(***************************************************************************)
BackendOps ==
    {"systemd.follow", "systemd.start", "systemd.stop", "systemd.restart",
     "systemd.graceful", "systemd.status"}

\* the exit codes the call site of the logged call has whitelisted (ignore_rc)
Whitelist(ev) == IF ev.kind = "systemctl" /\ ev.verb = "status" THEN {3} ELSE {}

\* the logged call exited with a code its call site has not whitelisted
FailedCall(ev) == IsExternal(ev) /\ ev.rc # 0 /\ ev.rc \notin Whitelist(ev)

\* the message that tells the operator to run update
IsRunUpdateHint(ev) ==
    /\ ev.kind = "error"
    /\ ev.text = "Some expected systemd units were not found, did you forget to run galaxyctl update?"

\* C23: a control-utility call that exits non-zero with a code that its call site has
\* not whitelisted ends the operation with CalledProcessError, the one exception being
\* exit code 4 of status, which is reported with the message telling the operator to run
\* update and raises nothing; exit code 3 of status is ignored; an operation all of whose
\* calls exit with zero or a whitelisted code raises nothing.
C23_ExitCodes ==
    Returned(BackendOps) =>
        /\ \A i \in 1..Len(log) :
              FailedCall(log[i]) =>
                  IF log[i].verb = "status" /\ log[i].rc = 4
                  THEN /\ err = "none"
                       /\ Len(log) = i + 1
                       /\ IsRunUpdateHint(log[i + 1])
                  ELSE /\ err = "CalledProcessError"
                       /\ Len(log) = i
        /\ (\A i \in 1..Len(log) : ~FailedCall(log[i])) =>
              /\ err = "none"
              /\ \A i \in 1..Len(log) : ~IsRunUpdateHint(log[i])

\* status met exit code 4: the hint was given and nothing was raised
C23_Witness ==
    /\ Returned({"systemd.status"})
    /\ log[1].rc = 4
    /\ err = "none"
    /\ Len(log) = 2
    /\ IsRunUpdateHint(log[2])

\* status met exit code 3 and start met exit code 3: ignored by the one, raised by the other
C23_WitnessIgnored ==
    \/ Returned({"systemd.status"}) /\ log[1].rc = 3 /\ err = "none"
    \/ Returned({"systemd.start"}) /\ log[1].rc = 3 /\ err = "CalledProcessError"

(***************************************************************************)
(* C24: what a normal update may remove                                    *)
(***************************************************************************)
\* the unit files of the services of the configs that are registered and bound to systemd
RegisteredServiceArtifacts ==
    UNION {{unit_file_name(c, c.services[j], use_instance_name) : j \in 1..Len(c.services)} :
               c \in {r \in Range(registry) : r.process_manager = "systemd"}}

\* ... and the targets of those configs
RegisteredArtifacts ==
    RegisteredServiceArtifacts
        \cup {__target_unit_name(c, use_instance_name) :
                 c \in {r \in Range(registry) : r.process_manager = "systemd"}}

\* C24 as stated: an update without force, whatever tokens it is given, removes no
\* artifact of a service of a config that is registered and bound to the systemd backend,
\* and no target of such a config.
C24_Original ==
    (Returned({"update"}) /\ ~op.force) => Unlinked \cap RegisteredArtifacts = {}

(***************************************************************************)
(* C25: round trip of the gravity command style                            *)
(***************************************************************************)
SynthesizedRan == op.name = "exec.synthesized" /\ pc \in {"returned", "replaced"}

\* C25 as stated: the command rendered for (config, service) in the gravity style,
\* galaxyctl exec <instance_name> <program_name>, given to exec on the same registry,
\* passes the name classification and the cardinality checks and replaces the process
\* with that config and that service.
C25_Original ==
    SynthesizedRan =>
        /\ pc = "replaced"
        /\ err = "none"
        /\ warnings = <<>>
        /\ \E i \in 1..Len(log) :
              /\ log[i].kind = "execvpe"
              /\ log[i].instance = Subject.config
              /\ log[i].service = Subject.service

(***************************************************************************)
(* C26: terminate when the process_manager() block is left                 *)
(***************************************************************************)
\* the backends that own at least one registered config
RegistryOwners == {registry[i].process_manager : i \in 1..Len(registry)}

\* the block of the last use of the context has been left
ContextLeft == Returned({"process_manager"})

TerminateCalls == SelectSeq(calls, LAMBDA c : c.func = "terminate")

\* C26: when the block of a process_manager() context has been left, whether it
\* completed or raised, terminate has been called on every backend that owns a
\* registered config, once on each and on no other backend, with no arguments, and after
\* every backend call of the block.
C26_TerminateOnExit ==
    ContextLeft =>
        /\ {c.pm : c \in Range(TerminateCalls)} = RegistryOwners
        /\ Len(TerminateCalls) = Cardinality(RegistryOwners)
        /\ \A i \in 1..Len(calls) : calls[i].func = "terminate" => calls[i].kwargs = EmptyDict
        /\ \A i, j \in 1..Len(calls) :
              (calls[i].func = "terminate" /\ calls[j].func # "terminate") => j < i

\* the block raised after a backend call and terminate still reached both backends
C26_Witness ==
    /\ ContextLeft
    /\ err = "CalledProcessError"
    /\ Len(calls) = 3
    /\ calls[1].func # "terminate"
    /\ Len(TerminateCalls) = 2

\* the block completed and terminate followed its backend calls
C26_WitnessCompleted ==
    /\ ContextLeft
    /\ err = "none"
    /\ calls # <<>>
    /\ calls[1].func = "start"
    /\ calls[Len(calls)].func = "terminate"

====
